---- MODULE Spec2Model ----
(***************************************************************************)
(* Upload pipeline of the Instagram farm: the Celery worker task           *)
(* process_video_with_progress (modules/tasks.py), the task log table      *)
(* behind TaskService (services/task_service.py), the publication history  *)
(* (modules/database.py) and the task API (api/tasks.py).                  *)
(*                                                                         *)
(* The worker and the API server are separate processes that share the     *)
(* task_logs and publicationhistory tables.  Every worker action below is  *)
(* one stretch of process_video_with_progress that touches the shared      *)
(* tables at most once; the cancel endpoint reads the row and writes it in *)
(* two separate statements, so it is two actions.  The handlers of the API *)
(* process never suspend between their statements, so requests of the API  *)
(* process do not interleave with each other.                              *)
(*                                                                         *)
(* The SQL statements are modelled by their relational meaning.            *)
(* celery_app.py runs the worker with worker_pool='solo': the worker       *)
(* handles control messages only between tasks, so the revoke sent by      *)
(* cancel_task does not interrupt the task that is executing.              *)
(***************************************************************************)
EXTENDS Integers, Sequences, FiniteSets, TLC

(* ---------------------------- bounds ----------------------------------- *)
NumLinks == 2        \* distinct video links
MaxVideos == 2       \* longest input list of an upload request
MaxRuns == 2         \* upload runs triggered in one behaviour
CooldownHi == 301    \* largest cooldown drawn from CooldownMin..CooldownMax
MaxTotal == 50       \* longest list of the progress specification
MaxListing == 2      \* longest listing of a source account
MaxSources == 2      \* longest list of source accounts of a fetch request
MaxFetches == 2      \* fetch requests made in one behaviour
MaxClock == 1        \* latest time on the clock of the database
MaxAttempts == 3     \* calls of upload_video_to_instagram in one behaviour
MaxFailedChecks == 3 \* failed checks in a row that are told apart

(* ------------------------ program constants ---------------------------- *)
CooldownMin == 300   \* random.randint(300, 1500)
CooldownMax == 1500
TickSeconds == 10    \* min(10, remaining)
MantissaBits == 53   \* Python float: IEEE-754 binary64
FailureThreshold == 3 \* auto_disable_failed_proxies(failure_threshold = 3)

Account == "A"
Links == 1..NumLinks
TaskIds == 1..MaxRuns
InputLists == UNION {[1..k -> Links] : k \in 0..MaxVideos}
Cooldowns == {c \in CooldownMin..CooldownMax : c <= CooldownHi}

(* Nullable columns and Optional arguments: <<>> is None/NULL, <<x>> is x. *)
None == <<>>
Some(x) == <<x>>
Truthy(o) == o # None /\ o[1] # 0
OrZero(o) == IF Truthy(o) THEN o[1] ELSE 0

Terminal == {"success", "failed", "cancelled"}

(* --------------- Python float arithmetic of the percentage ------------- *)
(* int((current / total) * 100): a correctly rounded binary64 division, a  *)
(* correctly rounded binary64 product, then truncation.  A float is a      *)
(* 53-bit mantissa m (most significant bit first) and the exponent e of    *)
(* its last bit: the value is m * 2^e.                                     *)
(* a function over 1..n as a finite sequence *)
AsSeq(f, n) == SubSeq(f, 1, n)

Zeros(k) == AsSeq([j \in 1..k |-> 0], k)

RECURSIVE Pow2(_)
Pow2(k) == IF k = 0 THEN 1 ELSE 2 * Pow2(k - 1)

RECURSIVE NormShift(_, _)
NormShift(a, n) == IF a >= n THEN 0 ELSE 1 + NormShift(2 * a, n)

RECURSIVE PowMod2(_, _)
PowMod2(k, n) ==
    IF k = 0 THEN 1 % n
    ELSE LET h == PowMod2(k \div 2, n)
             sq == (h * h) % n
         IN  IF k % 2 = 0 THEN sq ELSE (2 * sq) % n

QuotientBit(a, n, k) ==
    IF k = 0 THEN a \div n
    ELSE (2 * (((a % n) * PowMod2(k - 1, n)) % n)) \div n

QuotientRem(a, n, k) == ((a % n) * PowMod2(k, n)) % n

IncBits(b) ==
    IF \A j \in 1..Len(b) : b[j] = 1 THEN <<1>> \o Zeros(Len(b))
    ELSE LET z == CHOOSE j \in 1..Len(b) :
                      b[j] = 0 /\ \A q \in (j + 1)..Len(b) : b[q] = 1
         IN  AsSeq([j \in 1..Len(b) |-> IF j < z THEN b[j] ELSE IF j = z THEN 1 ELSE 0],
                   Len(b))

RECURSIVE BitsNat(_)
BitsNat(b) ==
    IF b = <<>> THEN 0
    ELSE 2 * BitsNat(SubSeq(b, 1, Len(b) - 1)) + b[Len(b)]

BitAt(b, p) == IF p >= 0 /\ p < Len(b) THEN b[Len(b) - p] ELSE 0

Limb(b, l) == BitsNat(AsSeq([j \in 1..16 |-> BitAt(b, l * 16 + (16 - j))], 16))

(* the limbs of a product, least significant first, from the limb products *)
CarryLimbs(t0, t1, t2, t3) ==
    LET B  == 65536
        c1 == t1 + (t0 \div B)
        c2 == t2 + (c1 \div B)
        c3 == t3 + (c2 \div B)
    IN  <<t0 % B, c1 % B, c2 % B, c3 % B, c3 \div B>>

LimbsBit(prod, p) == (prod[(p \div 16) + 1] \div Pow2(p % 16)) % 2

LimbsBits(prod) ==
    LET top == CHOOSE p \in 0..79 :
                   LimbsBit(prod, p) = 1 /\ \A q \in (p + 1)..79 : LimbsBit(prod, q) = 0
    IN  AsSeq([j \in 1..(top + 1) |-> LimbsBit(prod, top + 1 - j)], top + 1)

MulBits(b, k) ==
    LimbsBits(CarryLimbs(Limb(b, 0) * k, Limb(b, 1) * k, Limb(b, 2) * k, Limb(b, 3) * k))

RoundBits(bits, e, sticky) ==
    LET L == Len(bits) IN
    IF L <= MantissaBits
    THEN [m |-> bits \o Zeros(MantissaBits - L), e |-> e - (MantissaBits - L)]
    ELSE LET kept == SubSeq(bits, 1, MantissaBits)
             rb   == bits[MantissaBits + 1]
             st   == sticky \/ (\E j \in (MantissaBits + 2)..L : bits[j] = 1)
             up   == rb = 1 /\ (st \/ kept[MantissaBits] = 1)
             m0   == IF up THEN IncBits(kept) ELSE kept
         IN  IF Len(m0) > MantissaBits
             THEN [m |-> SubSeq(m0, 1, MantissaBits), e |-> e + (L - MantissaBits) + 1]
             ELSE [m |-> m0, e |-> e + (L - MantissaBits)]

FloatDiv(a, n) ==
    LET s    == NormShift(a, n)
        bits == AsSeq([j \in 1..(MantissaBits + 1) |-> QuotientBit(a, n, s + j - 1)],
                      MantissaBits + 1)
    IN  RoundBits(bits, 0 - s - MantissaBits, QuotientRem(a, n, s + MantissaBits) # 0)

FloatMulSmall(x, k) == RoundBits(MulBits(x.m, k), x.e, FALSE)

FloatToInt(x) ==
    LET keep == MantissaBits + x.e
    IN  IF keep <= 0 THEN 0 ELSE BitsNat(SubSeq(x.m, 1, keep))

PyPercent(current, total) == FloatToInt(FloatMulSmall(FloatDiv(current, total), 100))

(* the values of PyPercent for the list lengths of the model, computed once *)
PercentTable == [n \in 1..MaxTotal |-> [k \in 1..n |-> PyPercent(k, n)]]

(* progress_percent of update_progress, and the inline copies of lines 147-295 *)
ProgressPercent(current, total) ==
    IF total > 0 THEN PercentTable[total][current] ELSE 0


(* ------------------- TaskService over the task_logs table -------------- *)
(* The table is a function from the ids of its rows to the rows.           *)
NextActionAt(cooldown_seconds) ==
    IF Truthy(cooldown_seconds) THEN Some(cooldown_seconds[1]) ELSE None

log_task(t, task_id, task_type, status, account_username, message, progress, total_items, current_item, cooldown_seconds) ==
    LET next_action_at ==
            IF Truthy(cooldown_seconds) /\ status = "running"
            THEN NextActionAt(cooldown_seconds) ELSE None
        row == [id |-> task_id, task_type |-> task_type, status |-> status,
                account_username |-> account_username, message |-> message,
                progress |-> OrZero(progress), total_items |-> OrZero(total_items),
                current_item |-> current_item, next_action_at |-> next_action_at,
                cooldown_seconds |-> cooldown_seconds]
    IN  [x \in DOMAIN t \cup {task_id} |-> IF x = task_id THEN row ELSE t[x]]

(* the progress written as log_task writes a row: the whole row replaced, the *)
(* columns it is not given left at their defaults                           *)
update_task_progress_Replace(t, task_id, progress, current_item, message, cooldown_seconds) ==
    IF task_id \in DOMAIN t
    THEN log_task(t, task_id, "upload", t[task_id].status, "", message, Some(progress),
                  None, current_item, cooldown_seconds)
    ELSE t

update_task_progress(t, task_id, progress, current_item, message, cooldown_seconds) ==
    IF task_id \in DOMAIN t
    THEN [t EXCEPT ![task_id] =
            [@ EXCEPT !.progress = progress, !.current_item = current_item,
                      !.message = message,
                      !.next_action_at = NextActionAt(cooldown_seconds),
                      !.cooldown_seconds = cooldown_seconds]]
    ELSE t

(* update_task_status with the progress column reset instead of kept *)
update_task_status_ResetProgress(t, task_id, status, message) ==
    IF task_id \notin DOMAIN t THEN t
    ELSE [t EXCEPT ![task_id] =
            [@ EXCEPT !.status = status, !.message = message,
                      !.next_action_at = None, !.cooldown_seconds = None,
                      !.progress = 0]]

update_task_status(t, task_id, status, message) ==
    IF task_id \notin DOMAIN t THEN t
    ELSE IF status \in Terminal
    THEN [t EXCEPT ![task_id] =
            [@ EXCEPT !.status = status, !.message = message,
                      !.next_action_at = None, !.cooldown_seconds = None,
                      !.progress = IF t[task_id].status = "running" THEN @ ELSE 100]]
    ELSE [t EXCEPT ![task_id] = [@ EXCEPT !.status = status, !.message = message]]

get_task_progress(t, task_id) ==
    IF task_id \in DOMAIN t THEN Some(t[task_id]) ELSE None

(* ProgressTask *)
update_progress(t, task_id, current, total, current_item, cooldown) ==
    update_task_progress(t, task_id, ProgressPercent(current, total), current_item,
        IF Truthy(cooldown) THEN "Processing (Next in)" ELSE "Processing", cooldown)

check_if_cancelled(t, task_id) ==
    LET task_info == get_task_progress(t, task_id)
    IN  task_info # None /\ task_info[1].status = "cancelled"

(* modules/database.py over the publicationhistory rows of the account *)
(* is_video_published answering as its except branch does *)
is_video_published_Never(p, video) == FALSE

is_video_published(p, video) == video \in p
record_publication(p, video) == p \cup {video}

(* the cooldown slept in one piece *)
WaitTime_Whole(rem) == rem

(* wait_time = min(10, remaining) *)
WaitTime(rem) == IF TickSeconds < rem THEN TickSeconds ELSE rem

(* ------------- modules/proxy_utils.py over the accounts table ---------- *)
(* The proxy columns of a row: proxy_host is NULL, the empty string or a   *)
(* host name; a NULL proxy_status reads as 'unchecked'.                    *)
Usernames == {"A", "B"}
ProxyHosts == {None, Some(""), Some("h")}
ProxyStatuses == {"unchecked", "working", "failed"}
ProxyPorts == {8080}
ProxyCredentials == {None, Some("secret")}
NoProxy == [proxy_host |-> None, proxy_port |-> None, proxy_username |-> None,
            proxy_password |-> None, proxy_active |-> FALSE, proxy_status |-> "unchecked"]
ProxyRows == [proxy_host : ProxyHosts, proxy_port : {None} \cup {Some(n) : n \in ProxyPorts},
              proxy_username : ProxyCredentials, proxy_password : ProxyCredentials,
              proxy_active : BOOLEAN, proxy_status : ProxyStatuses]

(* truth value of an Optional[str] *)
NonEmpty(o) == o # None /\ o[1] # ""

(* SELECT ... WHERE username = ? AND proxy_active = 1, None unless the     *)
(* host of the row is truthy                                               *)
get_account_proxy_config(acc, username) ==
    IF username \in DOMAIN acc /\ acc[username].proxy_active
                               /\ NonEmpty(acc[username].proxy_host)
    THEN Some([host |-> acc[username].proxy_host[1],
               port |-> acc[username].proxy_port,
               username |-> acc[username].proxy_username,
               password |-> acc[username].proxy_password,
               active |-> acc[username].proxy_active,
               status |-> acc[username].proxy_status])
    ELSE None

(* UPDATE accounts SET proxy_status = ? WHERE username = ? *)
update_proxy_status(acc, username, status) ==
    IF username \in DOMAIN acc
    THEN [acc EXCEPT ![username].proxy_status = status]
    ELSE acc

(* modules/proxy_utils.py lines 103-108: the echo endpoints, in the order   *)
(* of the list                                                             *)
TestUrls == <<"http://httpbin.org/ip", "https://httpbin.org/ip",
              "http://icanhazip.com", "https://api.ipify.org?format=json">>

(* what a request to an endpoint does: answers 200, answers another status *)
(* code, or raises (timeout, proxy error, connection error, other)         *)
EndpointOutcomes == [1..Len(TestUrls) -> {"200", "status", "raises"}]

(* a proxy that lets every request through, and one that lets none *)
Reachable == [k \in 1..Len(TestUrls) |-> "200"]
Unreachable == [k \in 1..Len(TestUrls) |-> "raises"]

(* lines 110-139: the loop over test_urls from the k-th endpoint on *)
RECURSIVE TryUrls(_, _, _)
TryUrls(outcomes, k, requested) ==
    IF k > Len(TestUrls) THEN [ok |-> FALSE, contacted |-> requested]
    ELSE IF outcomes[k] = "200"
         THEN [ok |-> TRUE, contacted |-> Append(requested, <<TestUrls[k], outcomes[k]>>)]
         ELSE TryUrls(outcomes, k + 1, Append(requested, <<TestUrls[k], outcomes[k]>>))

(* the test asking every endpoint before it answers *)
test_proxy_connection_AllUrls(outcomes) ==
    [ok |-> \E k \in 1..Len(TestUrls) : outcomes[k] = "200",
     contacted |-> [k \in 1..Len(TestUrls) |-> <<TestUrls[k], outcomes[k]>>]]

(* lines 94-146 *)
test_proxy_connection(outcomes) == TryUrls(outcomes, 1, << >>)

(* get_all_proxy_accounts: SELECT ... WHERE proxy_host IS NOT NULL         *)
(* ORDER BY username                                                       *)
SortedUsernames == <<"A", "B">>

get_all_proxy_accounts(acc) ==
    LET row(k) == [username |-> SortedUsernames[k],
                   proxy_host |-> acc[SortedUsernames[k]].proxy_host,
                   proxy_active |-> acc[SortedUsernames[k]].proxy_active,
                   proxy_status |-> acc[SortedUsernames[k]].proxy_status]
        rows == [k \in 1..Len(SortedUsernames) |-> row(k)]
    IN  SelectSeq(rows, LAMBDA r : r.proxy_host # None)

(* modules/uploader.py lines 31-47: the client is given the proxy when the *)
(* configuration exists and is active                                      *)
UploadRoute(acc, username) ==
    LET proxy_config == get_account_proxy_config(acc, username)
    IN  IF proxy_config # None /\ proxy_config[1].active THEN "proxy" ELSE "direct"

(* the cooldown loop that is never left *)
CooldownLeft_Always(rem) == TRUE

(* the cooldown loop left after its first tick *)
CooldownLeft_Never(rem) == FALSE

(* while remaining > 0, if remaining > 0 *)
CooldownLeft(rem) == rem > 0

(* modules/uploader.py: what is noted of a call of upload_video_to_instagram *)
NoAttempt == [had_session |-> FALSE, logins |-> 0, result |-> "none", cause |-> "none"]

(* line 106: the message of the exception names a login-related keyword *)
LoginRelated(error) == error \in {"login", "challenge", "checkpoint", "session"}

(* ------------------------------- state --------------------------------- *)
VARIABLES
    task,           \* task_logs: id -> row
    pub,            \* publicationhistory: links published by the account
    files,          \* ./videos: links whose downloaded file exists
    queue,          \* Celery broker: upload tasks not yet started
    nextId,         \* next fresh Celery task id
    pc,             \* position of the worker in process_video_with_progress
    curTask,        \* self.request.id
    videos,         \* the input list of the run
    i,              \* loop index of enumerate(videos, 1)
    success_count,
    failed_count,
    cooldown,
    remaining,
    captionsEmpty,  \* captions.json holds an empty list
    captionsMissing, \* captions.json is not there
    cpc,            \* position of cancel_task: "idle" or "write"
    cid,            \* task id of the cancel request in progress
    called,         \* history: ids for which cancel was called before a publish completed
    accepted,       \* history: ids whose cancel write happened before the run ended
    pubAtStart,     \* history: pub when the run started
    turnPublished,  \* history: indices whose link was published when their turn came
    calls,          \* history: <<index, collaborator>> invoked by the run
    cdCancel,       \* history: index of the video in whose cooldown the cancel was written
    sleptAfter,     \* history: seconds of cooldown sleep that ended after the cancel write
    stepAtCancel,   \* history: <<index, step>> the worker was inside when the cancel was written
    publishing,     \* history: ids of the runs inside upload_video_to_instagram
    routes,         \* history: the accounts row and the route of each publish of the run
    notes,          \* history: <<index, kind>> of the telegram_notify calls of the run
    accounts,       \* accounts table, proxy columns: username -> row
    ppc,            \* position of check_all_proxies: "idle" or "loop"
    snapshot,       \* accounts read by get_all_proxy_accounts
    pidx,           \* index of the account the loop of check_all_proxies is at
    results,        \* results of check_all_proxies
    tested,         \* history: <<username, proxy_active>> at each proxy test of check_all_proxies
    vids,           \* videos table: <<link, theme>> rows
    fpc,            \* position of fetch_videos: "idle" or "accounts"
    freq,           \* the FetchRequest being served
    ftask,          \* fetch requests received so far; names the task_logs row
    fidx,           \* index of the source account the loop of the fetch is at
    all_new_videos, \* links collected by fetch_videos_for_theme_from_accounts
    listed,         \* history: what the platform listed for each source account of the call
    vidsAtStart,    \* history: videos table when the call started
    fprev,          \* history: request and listings of the call before the last
    flast,          \* history: the last completed call
    proxy_last_check, \* accounts table, proxy_last_check column: username -> time
    now,            \* CURRENT_TIMESTAMP
    health,         \* history: the last result of check_proxy_health in check_all_proxies
    contacted,      \* history: <<endpoint, answer>> of the requests of its proxy test, in order
    failed_checks,  \* history: username -> failed checks of its proxy in a row, up to MaxFailedChecks
    checked,        \* history: username -> what the last test since the settings were written went through
    upc,            \* position of upload_video_to_instagram
    session,        \* ./sessions/<username>.session exists
    attempt,        \* history: the current or last call of upload_video_to_instagram
    uattempts,      \* calls of upload_video_to_instagram so far
    uerr            \* the exception on its way to the handler of line 102

workerVars == <<pc, curTask, videos, i, success_count, failed_count, cooldown,
                remaining, captionsEmpty>>
cancelVars == <<cpc, cid>>
brokerVars == <<queue, nextId>>
histVars == <<called, accepted, pubAtStart, turnPublished, calls, cdCancel, stepAtCancel, sleptAfter,
              publishing, routes, notes>>
(* the history of the run except the notifications *)
silentVars == <<called, accepted, pubAtStart, turnPublished, calls, cdCancel, stepAtCancel, sleptAfter,
                publishing, routes>>
monitorVars == <<ppc, snapshot, pidx, results, tested>>
checkVars == <<proxy_last_check, now, health, contacted, failed_checks, checked>>
proxyVars == <<accounts, monitorVars, checkVars>>
fetchVars == <<vids, fpc, freq, ftask, fidx, all_new_videos, listed, vidsAtStart, fprev, flast>>
sessionVars == <<upc, session, attempt, uattempts, uerr>>
vars == <<task, pub, files, brokerVars, workerVars, cancelVars, histVars, proxyVars, fetchVars,
          sessionVars, captionsMissing>>

EndPcs == {"idle", "done", "ignored"}
(* the worker is inside get_download_link, download_video or               *)
(* upload_video_to_instagram                                               *)
StepPcs == {"get_link", "download", "upload"}
CooldownPcs == {"cd_check", "cd_sleep", "cd_update"}
total_videos == Len(videos)
video == videos[i]

Queued(id) == \E k \in 1..Len(queue) : queue[k].id = id
Active(id) == Queued(id) \/ (id = curTask /\ pc \notin EndPcs)

Init ==
    /\ task = << >>
    /\ pub \in SUBSET Links
    /\ files = {}
    /\ queue = << >>
    /\ nextId = 1
    /\ pc = "idle"
    /\ curTask = 0
    /\ videos = << >>
    /\ i = 0
    /\ success_count = 0
    /\ failed_count = 0
    /\ cooldown = 0
    /\ remaining = 0
    /\ captionsEmpty = FALSE
    /\ captionsMissing = FALSE
    /\ cpc = "idle"
    /\ cid = 0
    /\ called = {}
    /\ accepted = {}
    /\ pubAtStart = pub
    /\ turnPublished = {}
    /\ calls = {}
    /\ cdCancel = 0
    /\ stepAtCancel = << >>
    /\ sleptAfter = 0
    /\ publishing = {}
    /\ routes = {}
    /\ notes = {}
    /\ accounts = [u \in Usernames |-> NoProxy]
    /\ ppc = "idle"
    /\ snapshot = << >>
    /\ pidx = 0
    /\ results = << >>
    /\ tested = {}
    /\ vids = {}
    /\ fpc = "idle"
    /\ freq = << >>
    /\ ftask = 0
    /\ fidx = 0
    /\ all_new_videos = << >>
    /\ listed = << >>
    /\ vidsAtStart = {}
    /\ fprev = << >>
    /\ flast = << >>
    /\ proxy_last_check = [u \in Usernames |-> None]
    /\ now = 0
    /\ health = << >>
    /\ contacted = << >>
    /\ failed_checks = [u \in Usernames |-> 0]
    /\ checked = [u \in Usernames |-> None]
    /\ upc = "idle"
    /\ session = FALSE
    /\ attempt = NoAttempt
    /\ uattempts = 0
    /\ uerr = "none"

(* ------------------------- api/tasks.py -------------------------------- *)
(* upload_videos for the existing account: enqueue the Celery task.        *)
upload_videos(video_links) ==
    /\ queue' = Append(queue, [id |-> nextId, videos |-> video_links])
    /\ nextId' = nextId + 1
    /\ UNCHANGED <<captionsMissing, task, pub, files, workerVars, cancelVars, histVars, proxyVars,
                   fetchVars, sessionVars>>

(* cancel_task up to the status test: 404 and "not running" return here.   *)
CancelRead(task_id) ==
    /\ cpc = "idle"
    /\ LET t == get_task_progress(task, task_id)
       IN  IF t # None /\ t[1].status = "running"
           THEN cpc' = "write" /\ cid' = task_id
           ELSE UNCHANGED cancelVars
    /\ called' = IF Active(task_id) /\ (task_id = curTask => success_count = 0)
                 THEN called \cup {task_id} ELSE called
    /\ UNCHANGED <<captionsMissing, task, pub, files, brokerVars, workerVars, proxyVars,
                   accepted, pubAtStart, turnPublished, calls, cdCancel, stepAtCancel, sleptAfter,
                   publishing, routes, notes,
                   fetchVars, sessionVars>>

(* cancel_task from update_task_status on; the revoke has no effect on the *)
(* task the solo worker is executing.                                      *)
CancelWrite ==
    /\ cpc = "write"
    /\ task' = update_task_status(task, cid, "cancelled", "Task cancelled by user request")
    /\ cpc' = "idle"
    /\ cid' = 0
    /\ accepted' = IF Active(cid) THEN accepted \cup {cid} ELSE accepted
    /\ cdCancel' = IF cid = curTask /\ pc \in CooldownPcs /\ cdCancel = 0 THEN i ELSE cdCancel
    /\ stepAtCancel' = IF cid = curTask /\ pc \in StepPcs /\ stepAtCancel = << >>
                       THEN <<i, pc>> ELSE stepAtCancel
    /\ UNCHANGED <<captionsMissing, pub, files, brokerVars, workerVars, proxyVars,
                   called, pubAtStart, turnPublished, calls, sleptAfter,
                   publishing, routes, notes,
                   fetchVars, sessionVars>>

(* the failed checks in a row after one more check *)
FailedInARow(n, is_working) ==
    IF is_working THEN 0 ELSE IF n < MaxFailedChecks THEN n + 1 ELSE n

(* ------------------------- api/accounts.py ----------------------------- *)
(* the handlers of the API share one event loop (main.py line 68): while   *)
(* check_all_proxies runs, another handler runs only where it awaits, the  *)
(* sleep after each account it tested (proxy_monitoring_service.py line    *)
(* 119)                                                                    *)
MonitorYields ==
    ppc = "idle" \/ (results # << >> /\ results[Len(results)].status # "disabled")

(* the settings keeping the status the proxy had *)
update_account_proxy_KeepStatus(username, proxy_settings) ==
    /\ MonitorYields
    /\ username \in DOMAIN accounts
    /\ accounts' = [accounts EXCEPT ![username] =
                        [proxy_host |-> Some(proxy_settings.proxy_host),
                         proxy_port |-> Some(proxy_settings.proxy_port),
                         proxy_username |-> proxy_settings.proxy_username,
                         proxy_password |-> proxy_settings.proxy_password,
                         proxy_active |-> proxy_settings.proxy_active,
                         proxy_status |-> accounts[username].proxy_status]]
    /\ proxy_last_check' = [proxy_last_check EXCEPT ![username] = None]
    /\ failed_checks' = [failed_checks EXCEPT ![username] = 0]
    /\ checked' = [checked EXCEPT ![username] = None]
    /\ UNCHANGED <<captionsMissing, task, pub, files, brokerVars, workerVars, cancelVars, histVars,
                   monitorVars, now, health, contacted,
                   fetchVars, sessionVars>>

(* PUT /{username}/proxy with the ProxySettings of api/models.py: proxy_host *)
(* is any string, proxy_port an integer, the credentials are optional       *)
ProxySettings == [proxy_host : {"", "h"}, proxy_port : ProxyPorts,
                  proxy_username : ProxyCredentials, proxy_password : ProxyCredentials,
                  proxy_active : BOOLEAN]

(* the settings without credentials, on the only port *)
Plain(proxy_host, proxy_active) ==
    [proxy_host |-> proxy_host, proxy_port |-> 8080, proxy_username |-> None,
     proxy_password |-> None, proxy_active |-> proxy_active]

update_account_proxy(username, proxy_settings) ==
    /\ MonitorYields
    /\ username \in DOMAIN accounts
    /\ accounts' = [accounts EXCEPT ![username] =
                        [proxy_host |-> Some(proxy_settings.proxy_host),
                         proxy_port |-> Some(proxy_settings.proxy_port),
                         proxy_username |-> proxy_settings.proxy_username,
                         proxy_password |-> proxy_settings.proxy_password,
                         proxy_active |-> proxy_settings.proxy_active,
                         proxy_status |-> "unchecked"]]
    /\ proxy_last_check' = [proxy_last_check EXCEPT ![username] = None]
    /\ failed_checks' = [failed_checks EXCEPT ![username] = 0]
    /\ checked' = [checked EXCEPT ![username] = None]
    /\ UNCHANGED <<captionsMissing, task, pub, files, brokerVars, workerVars, cancelVars, histVars,
                   monitorVars, now, health, contacted,
                   fetchVars, sessionVars>>

(* the removal that clears the host and leaves the other columns *)
remove_account_proxy_HostOnly(username) ==
    /\ MonitorYields
    /\ username \in DOMAIN accounts
    /\ accounts' = [accounts EXCEPT ![username].proxy_host = None]
    /\ proxy_last_check' = proxy_last_check
    /\ failed_checks' = [failed_checks EXCEPT ![username] = 0]
    /\ checked' = [checked EXCEPT ![username] = None]
    /\ UNCHANGED <<captionsMissing, task, pub, files, brokerVars, workerVars, cancelVars, histVars,
                   monitorVars, now, health, contacted,
                   fetchVars, sessionVars>>

(* DELETE /{username}/proxy *)
remove_account_proxy(username) ==
    /\ MonitorYields
    /\ username \in DOMAIN accounts
    /\ accounts' = [accounts EXCEPT ![username] = NoProxy]
    /\ proxy_last_check' = [proxy_last_check EXCEPT ![username] = None]
    /\ failed_checks' = [failed_checks EXCEPT ![username] = 0]
    /\ checked' = [checked EXCEPT ![username] = None]
    /\ UNCHANGED <<captionsMissing, task, pub, files, brokerVars, workerVars, cancelVars, histVars,
                   monitorVars, now, health, contacted,
                   fetchVars, sessionVars>>

(* POST /{username}/proxy/test: 400 unless the host is truthy; the test    *)
(* does not look at proxy_active                                           *)
test_account_proxy(username, success) ==
    /\ MonitorYields
    /\ username \in DOMAIN accounts
    /\ NonEmpty(accounts[username].proxy_host)
    /\ accounts' = update_proxy_status(accounts, username,
                                       IF success THEN "working" ELSE "failed")
    /\ proxy_last_check' = [proxy_last_check EXCEPT ![username] = Some(now)]
    /\ failed_checks' = [failed_checks EXCEPT ![username] = FailedInARow(@, success)]
    /\ checked' = [checked EXCEPT ![username] =
                        Some([host |-> accounts[username].proxy_host[1],
                              port |-> accounts[username].proxy_port,
                              username |-> accounts[username].proxy_username,
                              password |-> accounts[username].proxy_password])]
    /\ UNCHANGED <<captionsMissing, task, pub, files, brokerVars, workerVars, cancelVars, histVars,
                   monitorVars, now, health, contacted,
                   fetchVars, sessionVars>>

(* the clock of the database moves on *)
Tick ==
    /\ now < MaxClock
    /\ now' = now + 1
    /\ UNCHANGED <<captionsMissing, task, pub, files, brokerVars, workerVars, cancelVars, histVars,
                   accounts, monitorVars, proxy_last_check, health, contacted, failed_checks, checked,
                   fetchVars, sessionVars>>

(* ---------------- services/proxy_monitoring_service.py ----------------- *)
(* check_all_proxies, line 100: the accounts are read once *)
CheckAllStart ==
    /\ ppc = "idle"
    /\ snapshot' = get_all_proxy_accounts(accounts)
    /\ results' = << >>
    /\ tested' = {}
    /\ pidx' = 1
    /\ ppc' = "loop"
    /\ health' = << >>
    /\ contacted' = << >>
    /\ UNCHANGED <<captionsMissing, task, pub, files, brokerVars, workerVars, cancelVars, histVars,
                   accounts, proxy_last_check, now, failed_checks, checked,
                   fetchVars, sessionVars>>

(* lines 58-85: the configuration is read, the proxy is tested and the     *)
(* outcome stored by update_proxy_status with the time of the check        *)
check_proxy_health(username, outcomes) ==
    LET proxy_config == get_account_proxy_config(accounts, username)
        test == test_proxy_connection(outcomes)
        new_status == IF test.ok THEN "working" ELSE "failed"
    IN  IF proxy_config = None
        THEN /\ health' = [username |-> username, status |-> "no_proxy"]
             /\ contacted' = << >>
             /\ UNCHANGED <<accounts, proxy_last_check, failed_checks, checked>>
        ELSE /\ accounts' = update_proxy_status(accounts, username, new_status)
             /\ failed_checks' = [failed_checks EXCEPT ![username] = FailedInARow(@, test.ok)]
             /\ checked' = [checked EXCEPT ![username] =
                                Some([host |-> proxy_config[1].host,
                                      port |-> proxy_config[1].port,
                                      username |-> proxy_config[1].username,
                                      password |-> proxy_config[1].password])]
             /\ proxy_last_check' = [proxy_last_check EXCEPT ![username] = Some(now)]
             /\ health' = [username |-> username, status |-> new_status]
             /\ contacted' = test.contacted

(* lines 105-119, one account of the loop: a disabled account is reported  *)
(* from the accounts read at the start; the others go to check_proxy_health *)
CheckAllStep(outcomes) ==
    /\ ppc = "loop"
    /\ pidx <= Len(snapshot)
    /\ LET account == snapshot[pidx]
           username == account.username
       IN  IF ~account.proxy_active
           THEN /\ results' = Append(results, [username |-> username, status |-> "disabled"])
                /\ UNCHANGED <<accounts, tested, proxy_last_check, health, contacted, failed_checks, checked>>
           ELSE /\ check_proxy_health(username, outcomes)
                /\ results' = Append(results, health')
                /\ tested' = IF get_account_proxy_config(accounts, username) = None
                             THEN tested
                             ELSE tested \cup {<<username, accounts[username].proxy_active>>}
    /\ pidx' = pidx + 1
    /\ UNCHANGED <<captionsMissing, task, pub, files, brokerVars, workerVars, cancelVars, histVars,
                   ppc, snapshot, now,
                   fetchVars, sessionVars>>

(* lines 128-134: the results are returned *)
CheckAllDone ==
    /\ ppc = "loop"
    /\ pidx > Len(snapshot)
    /\ ppc' = "idle"
    /\ UNCHANGED <<captionsMissing, task, pub, files, brokerVars, workerVars, cancelVars, histVars,
                   accounts, snapshot, pidx, results, tested, checkVars,
                   fetchVars, sessionVars>>

(* lines 179-215: UPDATE accounts SET proxy_active = 0 WHERE proxy_active = 1 *)
(* AND proxy_status = 'failed'; failure_threshold is not read               *)
auto_disable_failed_proxies(failure_threshold) ==
    /\ MonitorYields
    /\ accounts' = [u \in DOMAIN accounts |->
                        IF accounts[u].proxy_active /\ accounts[u].proxy_status = "failed"
                        THEN [accounts[u] EXCEPT !.proxy_active = FALSE]
                        ELSE accounts[u]]
    /\ UNCHANGED <<captionsMissing, task, pub, files, brokerVars, workerVars, cancelVars, histVars,
                   monitorVars, checkVars,
                   fetchVars, sessionVars>>

(* ------------- modules/tasks.py: process_video_with_progress ----------- *)
Invoke(kind) == calls' = calls \cup {<<i, kind>>}

(* telegram_notify from the worker: the index of the video and what is told *)
Notify(kind) == notes' = notes \cup {<<i, kind>>}

(* a worker that takes a task while it is executing one *)
WorkerFree_Always == TRUE

(* celery_app.py: worker_pool='solo', worker_concurrency=1: the worker     *)
(* takes the next task of the queue when it executes none                  *)
WorkerFree == pc \in EndPcs

(* raise Ignore(): the run ends without a status write *)
Ignored == pc' = "ignored"

(* lines 104-128: the worker takes the task, logs it and loads the captions; *)
(* when captions.json cannot be read the list is the default caption         *)
job == Head(queue)

WorkerStart ==
    /\ WorkerFree
    /\ queue # << >>
    /\ curTask' = job.id
    /\ videos' = job.videos
    /\ task' = log_task(task, job.id, "upload", "running", Account,
                        "Starting upload", Some(0), Some(Len(job.videos)),
                        "None", None)
    /\ queue' = Tail(queue)
    /\ captionsEmpty' \in (IF captionsMissing THEN {FALSE} ELSE BOOLEAN)
    /\ success_count' = 0
    /\ failed_count' = 0
    /\ i' = 0
    /\ cooldown' = 0
    /\ remaining' = 0
    /\ pc' = "for_loop"
    /\ pubAtStart' = pub
    /\ turnPublished' = {}
    /\ calls' = {}
    /\ cdCancel' = 0
    /\ stepAtCancel' = << >>
    /\ sleptAfter' = 0
    /\ called' = called \cap {job.id}
    /\ accepted' = {}
    /\ routes' = {}
    /\ notes' = {}
    /\ UNCHANGED <<captionsMissing, pub, files, nextId, cancelVars, publishing, proxyVars,
                   fetchVars, sessionVars>>

(* lines 130-137: next item of the list and the cancellation check *)
ForLoop ==
    /\ pc = "for_loop"
    /\ IF i = total_videos
       THEN pc' = "completion" /\ i' = i /\ notes' = notes
       ELSE /\ i' = i + 1
            /\ IF check_if_cancelled(task, curTask)
               THEN Ignored /\ notes' = notes \cup {<<i + 1, "cancelled">>}
               ELSE pc' = "upd_checking" /\ notes' = notes
    /\ UNCHANGED <<captionsMissing, task, pub, files, brokerVars, curTask, videos, success_count,
                   failed_count, cooldown, remaining, captionsEmpty, cancelVars,
                   silentVars, proxyVars,
                   fetchVars, sessionVars>>

(* line 141 *)
UpdChecking ==
    /\ pc = "upd_checking"
    /\ task' = update_progress(task, curTask, i, total_videos, "Checking if posted", None)
    /\ pc' = "is_published"
    /\ UNCHANGED <<captionsMissing, pub, files, brokerVars, curTask, videos, i, success_count,
                   failed_count, cooldown, remaining, captionsEmpty, cancelVars, histVars, proxyVars,
                   fetchVars, sessionVars>>

(* line 144 *)
IsPublished ==
    /\ pc = "is_published"
    /\ pc' = IF is_video_published(pub, video) THEN "skip" ELSE "check_download"
    /\ turnPublished' = IF video \in pub THEN turnPublished \cup {i} ELSE turnPublished
    /\ UNCHANGED <<captionsMissing, task, pub, files, brokerVars, curTask, videos, i, success_count,
                   failed_count, cooldown, remaining, captionsEmpty, cancelVars, proxyVars,
                   called, accepted, pubAtStart, calls, cdCancel, stepAtCancel, sleptAfter,
                   publishing, routes, notes,
                   fetchVars, sessionVars>>

(* lines 145-151 *)
Skip ==
    /\ pc = "skip"
    /\ task' = update_task_progress(task, curTask, ProgressPercent(i, total_videos),
                                    "Already posted, skipping", "Skipped", None)
    /\ pc' = "for_loop"
    /\ UNCHANGED <<captionsMissing, pub, files, brokerVars, curTask, videos, i, success_count,
                   failed_count, cooldown, remaining, captionsEmpty, cancelVars, histVars, proxyVars,
                   fetchVars, sessionVars>>

(* lines 154-157 *)
CheckDownload ==
    /\ pc = "check_download"
    /\ IF check_if_cancelled(task, curTask)
       THEN Ignored /\ Notify("cancelled")
       ELSE pc' = "upd_getlink" /\ notes' = notes
    /\ UNCHANGED <<captionsMissing, task, pub, files, brokerVars, curTask, videos, i, success_count,
                   failed_count, cooldown, remaining, captionsEmpty, cancelVars,
                   silentVars, proxyVars,
                   fetchVars, sessionVars>>

(* line 160 *)
UpdGetLink ==
    /\ pc = "upd_getlink"
    /\ task' = update_progress(task, curTask, i, total_videos, "Getting download link", None)
    /\ pc' = "get_link"
    /\ UNCHANGED <<captionsMissing, pub, files, brokerVars, curTask, videos, i, success_count,
                   failed_count, cooldown, remaining, captionsEmpty, cancelVars, histVars, proxyVars,
                   fetchVars, sessionVars>>

(* lines 162-164: get_download_link returns a url or None *)
GetLink ==
    /\ pc = "get_link"
    /\ Invoke("resolve")
    /\ \E download_url \in BOOLEAN :
        IF download_url
        THEN pc' = "upd_downloading" /\ failed_count' = failed_count
        ELSE pc' = "upd_nolink" /\ failed_count' = failed_count + 1
    /\ UNCHANGED <<captionsMissing, task, pub, files, brokerVars, curTask, videos, i, success_count,
                   cooldown, remaining, captionsEmpty, cancelVars, proxyVars,
                   called, accepted, pubAtStart, turnPublished, cdCancel, stepAtCancel, sleptAfter,
                   publishing, routes, notes,
                   fetchVars, sessionVars>>

(* the failed resolve leaving the loop instead of continuing it *)
UpdNoLink_Break ==
    /\ pc = "upd_nolink"
    /\ task' = update_task_progress(task, curTask, ProgressPercent(i, total_videos),
                                    "Failed to get download link",
                                    "Failed to get download link", None)
    /\ pc' = "completion"
    /\ Notify("no link")
    /\ UNCHANGED <<captionsMissing, pub, files, brokerVars, curTask, videos, i, success_count,
                   failed_count, cooldown, remaining, captionsEmpty, cancelVars,
                   silentVars, proxyVars,
                   fetchVars, sessionVars>>

(* lines 165-172 *)
UpdNoLink ==
    /\ pc = "upd_nolink"
    /\ task' = update_task_progress(task, curTask, ProgressPercent(i, total_videos),
                                    "Failed to get download link",
                                    "Failed to get download link", None)
    /\ pc' = "for_loop"
    /\ Notify("no link")
    /\ UNCHANGED <<captionsMissing, pub, files, brokerVars, curTask, videos, i, success_count,
                   failed_count, cooldown, remaining, captionsEmpty, cancelVars,
                   silentVars, proxyVars,
                   fetchVars, sessionVars>>

(* line 175 *)
UpdDownloading ==
    /\ pc = "upd_downloading"
    /\ task' = update_progress(task, curTask, i, total_videos, "Downloading", None)
    /\ pc' = "download"
    /\ UNCHANGED <<captionsMissing, pub, files, brokerVars, curTask, videos, i, success_count,
                   failed_count, cooldown, remaining, captionsEmpty, cancelVars, histVars, proxyVars,
                   fetchVars, sessionVars>>

(* lines 177-182: download_video writes the file and returns whether it is *)
(* non-empty; a failure after open() leaves whatever was written.          *)
Download ==
    /\ pc = "download"
    /\ Invoke("download")
    /\ \E success \in BOOLEAN, written \in BOOLEAN :
        /\ success => written
        /\ files' = IF written THEN files \cup {video} ELSE files
        /\ IF success
           THEN pc' = "check_upload" /\ failed_count' = failed_count
           ELSE pc' = "upd_dlfailed" /\ failed_count' = failed_count + 1
    /\ UNCHANGED <<captionsMissing, task, pub, brokerVars, curTask, videos, i, success_count,
                   cooldown, remaining, captionsEmpty, cancelVars, proxyVars,
                   called, accepted, pubAtStart, turnPublished, cdCancel, stepAtCancel, sleptAfter,
                   publishing, routes, notes,
                   fetchVars, sessionVars>>

(* lines 183-190 *)
UpdDlFailed ==
    /\ pc = "upd_dlfailed"
    /\ task' = update_task_progress(task, curTask, ProgressPercent(i, total_videos),
                                    "Download failed", "Failed to download", None)
    /\ pc' = "for_loop"
    /\ Notify("download failed")
    /\ UNCHANGED <<captionsMissing, pub, files, brokerVars, curTask, videos, i, success_count,
                   failed_count, cooldown, remaining, captionsEmpty, cancelVars,
                   silentVars, proxyVars,
                   fetchVars, sessionVars>>

(* the worker going on to the upload without the poll *)
CheckUpload_NoPoll ==
    /\ pc = "check_upload"
    /\ files' = files /\ pc' = "upd_uploading" /\ notes' = notes
    /\ UNCHANGED <<captionsMissing, task, pub, brokerVars, curTask, videos, i, success_count,
                   failed_count, cooldown, remaining, captionsEmpty, cancelVars,
                   silentVars, proxyVars,
                   fetchVars, sessionVars>>

(* lines 193-201 *)
CheckUpload ==
    /\ pc = "check_upload"
    /\ IF check_if_cancelled(task, curTask)
       THEN files' = files \ {video} /\ Ignored /\ Notify("cancelled")
       ELSE files' = files /\ pc' = "upd_uploading" /\ notes' = notes
    /\ UNCHANGED <<captionsMissing, task, pub, brokerVars, curTask, videos, i, success_count,
                   failed_count, cooldown, remaining, captionsEmpty, cancelVars,
                   silentVars, proxyVars,
                   fetchVars, sessionVars>>

(* lines 204-210: after the progress write the worker is inside            *)
(* upload_video_to_instagram, unless random.choice raises first            *)
UpdUploading ==
    /\ pc = "upd_uploading"
    /\ task' = update_progress(task, curTask, i, total_videos, "Uploading to Instagram", None)
    /\ pc' = "upload"
    /\ publishing' = IF captionsEmpty THEN publishing ELSE publishing \cup {curTask}
    /\ UNCHANGED <<captionsMissing, pub, files, brokerVars, curTask, videos, i, success_count,
                   failed_count, cooldown, remaining, captionsEmpty, cancelVars, proxyVars,
                   called, accepted, pubAtStart, turnPublished, calls, cdCancel, stepAtCancel,
                   sleptAfter, routes, notes,
                   fetchVars, sessionVars>>

(* lines 206-216 and 270-271, 289-290: random.choice raises IndexError on  *)
(* an empty caption list; otherwise the upload returns True or False, and  *)
(* False after an exception comes with a notification of the uploader      *)
(* (uploader.py line 107).                                                 *)
Upload ==
    /\ pc = "upload"
    /\ IF captionsEmpty
       THEN /\ pc' = "upd_error"
            /\ failed_count' = failed_count + 1
            /\ UNCHANGED <<success_count, cooldown, calls, routes, notes>>
       ELSE /\ Invoke("publish")
            /\ routes' = routes \cup {[cfg |-> accounts[Account],
                                        via |-> UploadRoute(accounts, Account)]}
            /\ \E upload_result \in BOOLEAN :
                IF upload_result
                THEN /\ success_count' = success_count + 1
                     /\ IF i < total_videos THEN cooldown' \in Cooldowns ELSE cooldown' = 0
                     /\ pc' = "upd_success"
                     /\ failed_count' = failed_count
                     /\ notes' = notes
                ELSE /\ failed_count' = failed_count + 1
                     /\ pc' = "upd_upfailed"
                     /\ \E raised \in BOOLEAN :
                            notes' = IF raised THEN notes \cup {<<i, "upload error">>}
                                     ELSE notes
                     /\ UNCHANGED <<success_count, cooldown>>
    /\ publishing' = publishing \ {curTask}
    /\ UNCHANGED <<captionsMissing, task, pub, files, brokerVars, curTask, videos, i,
                   remaining, captionsEmpty, cancelVars, proxyVars,
                   called, accepted, pubAtStart, turnPublished, cdCancel, stepAtCancel, sleptAfter,
                   fetchVars, sessionVars>>

(* the worker polling for a cancellation before it records the publication *)
UpdSuccess_Poll ==
    /\ pc = "upd_success"
    /\ task' = task
    /\ IF check_if_cancelled(task, curTask) THEN Ignored ELSE pc' = "record"
    /\ UNCHANGED <<captionsMissing, pub, files, brokerVars, curTask, videos, i, success_count,
                   failed_count, cooldown, remaining, captionsEmpty, cancelVars, histVars, proxyVars,
                   fetchVars, sessionVars>>

(* lines 219-230 *)
UpdSuccess ==
    /\ pc = "upd_success"
    /\ task' = IF cooldown > 0
               THEN update_progress(task, curTask, i, total_videos,
                                    "uploaded - Waiting cooldown", Some(cooldown))
               ELSE update_progress(task, curTask, i, total_videos,
                                    "uploaded - All done", Some(0))
    /\ pc' = "record"
    /\ UNCHANGED <<captionsMissing, pub, files, brokerVars, curTask, videos, i, success_count,
                   failed_count, cooldown, remaining, captionsEmpty, cancelVars, histVars, proxyVars,
                   fetchVars, sessionVars>>

(* the worker going to the next video without the cooldown *)
RecordPublication_NoCooldown ==
    /\ pc = "record"
    /\ Invoke("record")
    /\ pub' = record_publication(pub, video)
    /\ files' = files \ {video}
    /\ remaining' = remaining /\ pc' = "for_loop"
    /\ Notify("uploaded")
    /\ UNCHANGED <<captionsMissing, task, brokerVars, curTask, videos, i, success_count,
                   failed_count, cooldown, captionsEmpty, cancelVars, proxyVars,
                   called, accepted, pubAtStart, turnPublished, cdCancel, stepAtCancel, sleptAfter,
                   publishing, routes,
                   fetchVars, sessionVars>>

(* lines 233-252: record the publication, remove the file, notify, enter   *)
(* the cooldown loop                                                       *)
RecordPublication ==
    /\ pc = "record"
    /\ Invoke("record")
    /\ pub' = record_publication(pub, video)
    /\ files' = files \ {video}
    /\ IF cooldown > 0
       THEN remaining' = cooldown /\ pc' = "cd_check"
       ELSE remaining' = remaining /\ pc' = "for_loop"
    /\ Notify("uploaded")
    /\ UNCHANGED <<captionsMissing, task, brokerVars, curTask, videos, i, success_count,
                   failed_count, cooldown, captionsEmpty, cancelVars, proxyVars,
                   called, accepted, pubAtStart, turnPublished, cdCancel, stepAtCancel, sleptAfter,
                   publishing, routes,
                   fetchVars, sessionVars>>

(* lines 252-257 *)
CdCheck ==
    /\ pc = "cd_check"
    /\ IF check_if_cancelled(task, curTask)
       THEN Ignored /\ Notify("cancelled")
       ELSE pc' = "cd_sleep" /\ notes' = notes
    /\ UNCHANGED <<captionsMissing, task, pub, files, brokerVars, curTask, videos, i, success_count,
                   failed_count, cooldown, remaining, captionsEmpty, cancelVars,
                   silentVars, proxyVars,
                   fetchVars, sessionVars>>

(* lines 259-263: one tick of sleep *)
CdSleep ==
    /\ pc = "cd_sleep"
    /\ LET wait_time == WaitTime(remaining) IN
        /\ remaining' = remaining - wait_time
        /\ sleptAfter' = IF curTask \in accepted THEN sleptAfter + wait_time ELSE sleptAfter
        /\ pc' = IF CooldownLeft(remaining - wait_time) THEN "cd_update" ELSE "for_loop"
    /\ UNCHANGED <<captionsMissing, task, pub, files, brokerVars, curTask, videos, i, success_count,
                   failed_count, cooldown, captionsEmpty, cancelVars, proxyVars,
                   called, accepted, pubAtStart, turnPublished, calls, cdCancel, stepAtCancel,
                   publishing, routes, notes,
                   fetchVars, sessionVars>>

(* lines 264-268 *)
CdUpdate ==
    /\ pc = "cd_update"
    /\ task' = update_progress(task, curTask, i, total_videos,
                               "uploaded - Cooldown remaining", Some(remaining))
    /\ pc' = "cd_check"
    /\ UNCHANGED <<captionsMissing, pub, files, brokerVars, curTask, videos, i, success_count,
                   failed_count, cooldown, remaining, captionsEmpty, cancelVars, histVars, proxyVars,
                   fetchVars, sessionVars>>

(* lines 272-284 *)
UpdUpFailed ==
    /\ pc = "upd_upfailed"
    /\ task' = update_task_progress(task, curTask, ProgressPercent(i, total_videos),
                                    "Upload failed", "Failed to upload", None)
    /\ files' = files \ {video}
    /\ pc' = "for_loop"
    /\ Notify("upload failed")
    /\ UNCHANGED <<captionsMissing, pub, brokerVars, curTask, videos, i, success_count,
                   failed_count, cooldown, remaining, captionsEmpty, cancelVars,
                   silentVars, proxyVars,
                   fetchVars, sessionVars>>

(* lines 291-301 *)
UpdError ==
    /\ pc = "upd_error"
    /\ task' = update_task_progress(task, curTask, ProgressPercent(i, total_videos),
                                    "Error occurred", "Error processing", None)
    /\ pc' = "for_loop"
    /\ Notify("error")
    /\ UNCHANGED <<captionsMissing, pub, files, brokerVars, curTask, videos, i, success_count,
                   failed_count, cooldown, remaining, captionsEmpty, cancelVars,
                   silentVars, proxyVars,
                   fetchVars, sessionVars>>

(* the final status demanding that no video failed *)
final_status_AllOrNothing == IF failed_count = 0 THEN "success" ELSE "failed"

(* line 308 *)
final_status == IF success_count > 0 THEN "success" ELSE "failed"

(* lines 303-319 *)
Completion ==
    /\ pc = "completion"
    /\ task' = update_task_status(task, curTask,
                                  final_status,
                                  "Upload task completed")
    /\ pc' = "done"
    /\ Notify("summary")
    /\ UNCHANGED <<captionsMissing, pub, files, brokerVars, curTask, videos, i, success_count,
                   failed_count, cooldown, remaining, captionsEmpty, cancelVars,
                   silentVars, proxyVars,
                   fetchVars, sessionVars>>

Worker ==
    \/ WorkerStart \/ ForLoop \/ UpdChecking \/ IsPublished \/ Skip
    \/ CheckDownload \/ UpdGetLink \/ GetLink \/ UpdNoLink \/ UpdDownloading
    \/ Download \/ UpdDlFailed \/ CheckUpload \/ UpdUploading \/ Upload
    \/ UpdSuccess \/ RecordPublication \/ CdCheck \/ CdSleep \/ CdUpdate
    \/ UpdUpFailed \/ UpdError \/ Completion

(* ---------------- modules/tasks.py: process_video ---------------------- *)
(* what the collaborators answered for the k-th video of the run *)
Resolved(k) == <<k, "no link">> \notin notes
Downloaded(k) == <<k, "download failed">> \notin notes
Uploaded(k) == <<k, "record">> \in calls

(* lines 68-97: the loop from the k-th video on, with the publication       *)
(* history p and the links handed to the uploader so far; random.choice of  *)
(* line 84 raises on an empty list and nothing catches it                   *)
RECURSIVE LegacyLoop(_, _, _)
LegacyLoop(k, p, uploads) ==
    IF k > total_videos THEN [pub |-> p, uploads |-> uploads]
    ELSE IF is_video_published(p, videos[k]) THEN LegacyLoop(k + 1, p, uploads)
    ELSE IF ~Resolved(k) \/ ~Downloaded(k) THEN LegacyLoop(k + 1, p, uploads)
    ELSE IF captionsEmpty THEN [pub |-> p, uploads |-> uploads]
    ELSE IF Uploaded(k)
         THEN LegacyLoop(k + 1, record_publication(p, videos[k]), Append(uploads, videos[k]))
         ELSE LegacyLoop(k + 1, p, Append(uploads, videos[k]))

(* lines 61-97: open("captions.json") of line 65 is outside any try *)
process_video ==
    IF captionsMissing THEN [pub |-> pubAtStart, uploads |-> << >>]
    ELSE LegacyLoop(1, pubAtStart, << >>)

(* the links process_video_with_progress handed to the uploader, in order *)
UploadsOfRun ==
    LET RECURSIVE From(_)
        From(k) == IF k > total_videos THEN << >>
                   ELSE IF <<k, "publish">> \in calls THEN <<videos[k]>> \o From(k + 1)
                   ELSE From(k + 1)
    IN  From(1)

(* captions.json is removed while the worker executes no task *)
CaptionsRemoved ==
    /\ ~captionsMissing
    /\ pc = "idle"
    /\ captionsMissing' = TRUE
    /\ UNCHANGED <<task, pub, files, brokerVars, workerVars, cancelVars, histVars, proxyVars,
                   fetchVars, sessionVars>>

(* One upload request and its run without a cancel request, with            *)
(* captions.json there or not.                                              *)
NextLegacy ==
    \/ \E video_links \in InputLists : nextId = 1 /\ upload_videos(video_links)
    \/ CaptionsRemoved
    \/ Worker

SpecLegacy == Init /\ [][NextLegacy]_vars

(* One upload request, its run, and cancel requests at any moment. *)
Next ==
    \/ \E video_links \in InputLists : nextId = 1 /\ upload_videos(video_links)
    \/ \E task_id \in TaskIds : CancelRead(task_id)
    \/ CancelWrite
    \/ Worker

Spec == Init /\ [][Next]_vars

(* the worker process is not stopped: a step it can take is taken *)
SpecLive == Spec /\ WF_vars(Worker)

(* Upload requests one after the other for an account that has published   *)
(* nothing yet, each request with any list, with cancel requests at any    *)
(* moment: what a later run finds published, an earlier run published.     *)
InitReplay == Init /\ pub = {}

NextReplay ==
    \/ \E video_links \in InputLists : nextId <= MaxRuns /\ upload_videos(video_links)
    \/ \E task_id \in TaskIds : CancelRead(task_id)
    \/ CancelWrite
    \/ Worker

SpecReplay == InitReplay /\ [][NextReplay]_vars

(* Runs over lists of up to MaxTotal links that are all published already: *)
(* the progress written after every item, without a canceller.             *)
InitProgress ==
    /\ task = << >>
    /\ pub = {1}
    /\ files = {}
    /\ \E n \in 1..MaxTotal : queue = <<[id |-> 1, videos |-> [k \in 1..n |-> 1]]>>
    /\ nextId = 2
    /\ pc = "idle"
    /\ curTask = 0
    /\ videos = << >>
    /\ i = 0
    /\ success_count = 0
    /\ failed_count = 0
    /\ cooldown = 0
    /\ remaining = 0
    /\ captionsEmpty = FALSE
    /\ captionsMissing = FALSE
    /\ cpc = "idle"
    /\ cid = 0
    /\ called = {}
    /\ accepted = {}
    /\ pubAtStart = pub
    /\ turnPublished = {}
    /\ calls = {}
    /\ cdCancel = 0
    /\ stepAtCancel = << >>
    /\ sleptAfter = 0
    /\ publishing = {}
    /\ routes = {}
    /\ notes = {}
    /\ accounts = [u \in Usernames |-> NoProxy]
    /\ ppc = "idle"
    /\ snapshot = << >>
    /\ pidx = 0
    /\ results = << >>
    /\ tested = {}
    /\ vids = {}
    /\ fpc = "idle"
    /\ freq = << >>
    /\ ftask = 0
    /\ fidx = 0
    /\ all_new_videos = << >>
    /\ listed = << >>
    /\ vidsAtStart = {}
    /\ fprev = << >>
    /\ flast = << >>
    /\ proxy_last_check = [u \in Usernames |-> None]
    /\ now = 0
    /\ health = << >>
    /\ contacted = << >>
    /\ failed_checks = [u \in Usernames |-> 0]
    /\ checked = [u \in Usernames |-> None]
    /\ upc = "idle"
    /\ session = FALSE
    /\ attempt = NoAttempt
    /\ uattempts = 0
    /\ uerr = "none"

NextProgress ==
    \/ WorkerStart \/ ForLoop \/ UpdChecking \/ IsPublished \/ Skip \/ Completion

SpecProgress == InitProgress /\ [][NextProgress]_vars

(* One upload request and its run, while the proxy of the account is set,  *)
(* removed and tested.                                                     *)
NextRoute ==
    \/ \E video_links \in InputLists : nextId = 1 /\ upload_videos(video_links)
    \/ Worker
    \/ \E proxy_host \in {"", "h"}, proxy_active \in BOOLEAN :
            update_account_proxy(Account, Plain(proxy_host, proxy_active))
    \/ remove_account_proxy(Account)
    \/ \E success \in BOOLEAN : test_account_proxy(Account, success)

SpecRoute == Init /\ [][NextRoute]_vars

(* The proxy endpoints and the health check of all proxies. *)
NextProxy ==
    \/ \E username \in Usernames, proxy_host \in {"", "h"}, proxy_active \in BOOLEAN :
            update_account_proxy(username, Plain(proxy_host, proxy_active))
    \/ \E username \in Usernames : remove_account_proxy(username)
    \/ \E username \in Usernames, success \in BOOLEAN : test_account_proxy(username, success)
    \/ CheckAllStart
    \/ \E outcomes \in {Reachable, Unreachable} : CheckAllStep(outcomes)
    \/ CheckAllDone

SpecProxy == Init /\ [][NextProxy]_vars

(* the monitor with the proxy settings changing under it and the clock running *)
NextHealth ==
    \/ \E username \in Usernames, proxy_active \in BOOLEAN :
            update_account_proxy(username, Plain("h", proxy_active))
    \/ \E username \in Usernames : remove_account_proxy(username)
    \/ Tick
    \/ CheckAllStart
    \/ \E outcomes \in EndpointOutcomes : CheckAllStep(outcomes)
    \/ CheckAllDone

SpecHealth == Init /\ [][NextHealth]_vars

(* the health check of all proxies and the automatic deactivation of the   *)
(* failed ones, with the default threshold                                 *)
NextDisable ==
    \/ \E username \in Usernames, proxy_active \in BOOLEAN :
            update_account_proxy(username, Plain("h", proxy_active))
    \/ CheckAllStart
    \/ \E outcomes \in {Reachable, Unreachable} : CheckAllStep(outcomes)
    \/ CheckAllDone
    \/ auto_disable_failed_proxies(FailureThreshold)

SpecDisable == Init /\ [][NextDisable]_vars

(* the proxy set with and without credentials, active or not, its removal  *)
(* and the health check of all, in any order                               *)
NextSettings ==
    \/ \E username \in Usernames, proxy_settings \in ProxySettings :
            proxy_settings.proxy_host = "h" /\ update_account_proxy(username, proxy_settings)
    \/ \E username \in Usernames : remove_account_proxy(username)
    \/ CheckAllStart
    \/ \E outcomes \in {Reachable, Unreachable} : CheckAllStep(outcomes)
    \/ CheckAllDone

SpecSettings == Init /\ [][NextSettings]_vars

(* The run of one account with the proxy inactive over the links 1, 2, 3,  *)
(* of which link 2 is published already; no cancel request.                *)
InitScenario ==
    /\ task = << >>
    /\ pub = {2}
    /\ files = {}
    /\ queue = <<[id |-> 1, videos |-> <<1, 2, 3>>]>>
    /\ nextId = 2
    /\ pc = "idle"
    /\ curTask = 0
    /\ videos = << >>
    /\ i = 0
    /\ success_count = 0
    /\ failed_count = 0
    /\ cooldown = 0
    /\ remaining = 0
    /\ captionsEmpty = FALSE
    /\ captionsMissing = FALSE
    /\ cpc = "idle"
    /\ cid = 0
    /\ called = {}
    /\ accepted = {}
    /\ pubAtStart = pub
    /\ turnPublished = {}
    /\ calls = {}
    /\ cdCancel = 0
    /\ stepAtCancel = << >>
    /\ sleptAfter = 0
    /\ publishing = {}
    /\ routes = {}
    /\ notes = {}
    /\ accounts = [u \in Usernames |-> NoProxy]
    /\ ppc = "idle"
    /\ snapshot = << >>
    /\ pidx = 0
    /\ results = << >>
    /\ tested = {}
    /\ vids = {}
    /\ fpc = "idle"
    /\ freq = << >>
    /\ ftask = 0
    /\ fidx = 0
    /\ all_new_videos = << >>
    /\ listed = << >>
    /\ vidsAtStart = {}
    /\ fprev = << >>
    /\ flast = << >>
    /\ proxy_last_check = [u \in Usernames |-> None]
    /\ now = 0
    /\ health = << >>
    /\ contacted = << >>
    /\ failed_checks = [u \in Usernames |-> 0]
    /\ checked = [u \in Usernames |-> None]
    /\ upc = "idle"
    /\ session = FALSE
    /\ attempt = NoAttempt
    /\ uattempts = 0
    /\ uerr = "none"

NextScenario == Worker

SpecScenario == InitScenario /\ [][NextScenario]_vars

(* ------------------------- modules/fetcher.py -------------------------- *)
Themes == {"t1", "t2"}
Sources == {"s1", "s2"}
FanAccountLists == UNION {[1..k -> Sources] : k \in 0..MaxSources}
Listings == UNION {[1..k -> Links] : k \in 0..MaxListing}
FetchRequests ==
    [theme : Themes, source_usernames : FanAccountLists, videos_per_account : 1..MaxListing]
(* an account of the platform lists its videos, or the request fails *)
ListOutcomes == {None} \cup {Some(l) : l \in Listings}
FetchTaskId(n) == MaxRuns + n

(* database.get_existing_video_links_for_theme *)
get_existing_video_links_for_theme(v, theme) == {r[1] : r \in {x \in v : x[2] = theme}}

(* database.record_video: INSERT OR IGNORE *)
record_video(v, video_link, theme) == v \cup {<<video_link, theme>>}

(* lines 63-65 and 96: the loop over user.videos stops at count videos *)
TakeCount(listing, count) ==
    SubSeq(listing, 1, IF Len(listing) < count THEN Len(listing) ELSE count)

(* the filter letting every listed link through *)
NewVideos_Unfiltered(vs, existing_links) == vs

(* lines 114-117: existing_links is read once, before the loop *)
NewVideos(vs, existing_links) == SelectSeq(vs, LAMBDA url : url \notin existing_links)

(* lines 114-119: each new video is recorded *)
RECURSIVE RecordAll(_, _, _)
RecordAll(v, new_videos, theme) ==
    IF new_videos = << >> THEN v
    ELSE RecordAll(record_video(v, Head(new_videos), theme), Tail(new_videos), theme)

(* api/tasks.py lines 58-73: the rows the save loop inserts, and their count *)
RECURSIVE SaveAll(_, _, _, _)
SaveAll(v, new_videos, theme, inserted_count) ==
    IF new_videos = << >> THEN [vids |-> v, inserted_count |-> inserted_count]
    ELSE LET row == <<Head(new_videos), theme>>
         IN  SaveAll(v \cup {row}, Tail(new_videos), theme,
                     IF row \in v THEN inserted_count ELSE inserted_count + 1)

(* api/tasks.py lines 36-47: POST /fetch logs the task as running *)
fetch_videos(request) ==
    /\ fpc = "idle"
    /\ ftask < MaxFetches
    /\ ftask' = ftask + 1
    /\ task' = log_task(task, FetchTaskId(ftask + 1), "fetch", "running", "None",
                        "Fetching videos", None, Some(Len(request.source_usernames)),
                        "None", None)
    /\ freq' = request
    /\ fidx' = 1
    /\ all_new_videos' = << >>
    /\ listed' = << >>
    /\ vidsAtStart' = vids
    /\ fpc' = "accounts"
    /\ UNCHANGED <<captionsMissing, vids, fprev, flast, pub, files, brokerVars, workerVars, cancelVars,
                   histVars, proxyVars, sessionVars>>

(* fetcher.py lines 166-190 with fetch_videos_from_account, one source account *)
FetchAccount(outcome) ==
    /\ fpc = "accounts"
    /\ fidx <= Len(freq.source_usernames)
    /\ LET vs == IF outcome = None THEN << >>
                 ELSE TakeCount(outcome[1], freq.videos_per_account)
           existing_links == get_existing_video_links_for_theme(vids, freq.theme)
           new_videos == NewVideos(vs, existing_links)
       IN  /\ vids' = RecordAll(vids, new_videos, freq.theme)
           /\ all_new_videos' = all_new_videos \o new_videos
           /\ listed' = Append(listed, IF outcome = None THEN None ELSE Some(vs))
    /\ fidx' = fidx + 1
    /\ UNCHANGED <<captionsMissing, task, fpc, freq, ftask, vidsAtStart, fprev, flast, pub, files, brokerVars,
                   workerVars, cancelVars, histVars, proxyVars, sessionVars>>

(* api/tasks.py lines 56-87: the save loop, the success log and the response *)
FetchSave ==
    /\ fpc = "accounts"
    /\ fidx > Len(freq.source_usernames)
    /\ LET saved == SaveAll(vids, all_new_videos, freq.theme, 0)
       IN  /\ vids' = saved.vids
           /\ flast' = [req |-> freq, listed |-> listed, result |-> all_new_videos,
                        before |-> get_existing_video_links_for_theme(vidsAtStart, freq.theme),
                        after |-> get_existing_video_links_for_theme(saved.vids, freq.theme),
                        created |-> Cardinality(saved.vids \ vidsAtStart),
                        videos_count |-> saved.inserted_count]
    /\ fprev' = IF flast = << >> THEN << >>
                ELSE [req |-> flast.req, listed |-> flast.listed, created |-> flast.created]
    /\ task' = log_task(task, FetchTaskId(ftask), "fetch", "success", "None",
                        "Fetched new videos", Some(100),
                        Some(Len(freq.source_usernames)), "None", None)
    /\ fpc' = "idle"
    /\ fidx' = 0
    /\ freq' = << >>
    /\ all_new_videos' = << >>
    /\ listed' = << >>
    /\ vidsAtStart' = {}
    /\ UNCHANGED <<captionsMissing, ftask, pub, files, brokerVars, workerVars, cancelVars, histVars, proxyVars, sessionVars>>

NextFetch ==
    \/ \E request \in FetchRequests : fetch_videos(request)
    \/ \E outcome \in ListOutcomes : FetchAccount(outcome)
    \/ FetchSave

SpecFetch == Init /\ [][NextFetch]_vars


(* ------------------------- modules/uploader.py ------------------------- *)
Returned(result, cause) ==
    /\ upc' = "returned"
    /\ attempt' = [attempt EXCEPT !.result = result, !.cause = cause]

(* lines 22-52: the call starts and looks for the session file *)
UpStart ==
    /\ upc \in {"idle", "returned"}
    /\ uattempts < MaxAttempts
    /\ uattempts' = uattempts + 1
    /\ attempt' = [NoAttempt EXCEPT !.had_session = session]
    /\ upc' = IF session THEN "session" ELSE "login"
    /\ UNCHANGED <<captionsMissing, session, uerr, task, pub, files, brokerVars, workerVars, cancelVars,
                   histVars, proxyVars, fetchVars>>

(* the invalid session left in place *)
UpSession_Keep(valid) ==
    /\ upc = "session"
    /\ valid => session
    /\ upc' = IF valid THEN "file" ELSE "login"
    /\ UNCHANGED <<captionsMissing, session, attempt, uattempts, uerr, task, pub, files, brokerVars, workerVars,
                   cancelVars, histVars, proxyVars, fetchVars>>

(* lines 53-64: the session is loaded and tried; any failure removes it *)
UpSession(valid) ==
    /\ upc = "session"
    /\ valid => session
    /\ IF valid THEN upc' = "file" /\ session' = session
       ELSE upc' = "login" /\ session' = FALSE
    /\ UNCHANGED <<captionsMissing, attempt, uattempts, uerr, task, pub, files, brokerVars, workerVars,
                   cancelVars, histVars, proxyVars, fetchVars>>

(* lines 66-72 with perform_login, lines 121-164: the session is saved     *)
(* after a login that succeeded                                            *)
UpLogin(ok) ==
    /\ upc = "login"
    /\ IF ok
       THEN /\ session' = TRUE
            /\ upc' = "file"
            /\ attempt' = [attempt EXCEPT !.logins = @ + 1]
       ELSE /\ session' = session
            /\ upc' = "returned"
            /\ attempt' = [attempt EXCEPT !.logins = @ + 1, !.result = "False",
                                          !.cause = "login"]
    /\ UNCHANGED <<captionsMissing, uattempts, uerr, task, pub, files, brokerVars, workerVars,
                   cancelVars, histVars, proxyVars, fetchVars>>

(* lines 75-82: the video file must exist and hold something *)
UpFile(present) ==
    /\ upc = "file"
    /\ IF present THEN upc' = "video" /\ attempt' = attempt
       ELSE Returned("False", "file")
    /\ UNCHANGED <<captionsMissing, session, uattempts, uerr, task, pub, files, brokerVars, workerVars,
                   cancelVars, histVars, proxyVars, fetchVars>>

(* lines 86-100: the upload returns a media, returns none, or raises *)
UpVideo(outcome) ==
    /\ upc = "video"
    /\ IF outcome = "media" THEN Returned("True", "none") /\ uerr' = uerr
       ELSE IF outcome = "no media" THEN Returned("False", "upload") /\ uerr' = uerr
       ELSE upc' = "except" /\ uerr' = outcome /\ attempt' = attempt
    /\ UNCHANGED <<captionsMissing, session, uattempts, task, pub, files, brokerVars, workerVars,
                   cancelVars, histVars, proxyVars, fetchVars>>

(* lines 102-118: the handler removes the session when the message of the  *)
(* exception names a login-related keyword                                 *)
UpExcept ==
    /\ upc = "except"
    /\ session' = IF LoginRelated(uerr) THEN FALSE ELSE session
    /\ Returned("False", IF LoginRelated(uerr) THEN "session" ELSE "error")
    /\ uerr' = "none"
    /\ UNCHANGED <<captionsMissing, uattempts, task, pub, files, brokerVars, workerVars,
                   cancelVars, histVars, proxyVars, fetchVars>>

(* lines 167-175, called by the account endpoints of the API *)
cleanup_session ==
    /\ session
    /\ session' = FALSE
    /\ UNCHANGED <<captionsMissing, upc, attempt, uattempts, uerr, task, pub, files, brokerVars, workerVars,
                   cancelVars, histVars, proxyVars, fetchVars>>

NextSession ==
    \/ UpStart
    \/ \E valid \in BOOLEAN : UpSession(valid)
    \/ \E ok \in BOOLEAN : UpLogin(ok)
    \/ \E present \in BOOLEAN : UpFile(present)
    \/ \E outcome \in {"media", "no media", "login", "challenge", "checkpoint", "session",
                       "timeout"} : UpVideo(outcome)
    \/ UpExcept
    \/ cleanup_session

SpecSession == Init /\ [][NextSession]_vars

(* ------------------------------ claims --------------------------------- *)
RunEnded == pc \in {"done", "ignored"}
Collaborators == {"resolve", "download", "publish", "record"}

(* C1: a link that is in the publication history of the account when its  *)
(* turn comes gets no resolver, downloader or publish call and no          *)
(* publication write, in the first run and in every replay.                *)
C1_PublishedLinkUntouched ==
    \A k \in turnPublished : \A kind \in Collaborators : <<k, kind>> \notin calls

(* the second run has ended and skipped both links of its list, which the  *)
(* first run had published                                                 *)
C1_Witness ==
    /\ curTask = 2 /\ pc = "done"
    /\ Len(videos) = 2 /\ videos[1] # videos[2] /\ turnPublished = {1, 2}
    /\ task[1].status = "success"

(* C2: a run for which cancel was called after the trigger and before a    *)
(* publish of the run completed ends cancelled and has written no          *)
(* publication.                                                            *)
C2_EarlyCancelStopsRun ==
    (RunEnded /\ curTask \in called) =>
        (task[curTask].status = "cancelled" /\ pub = pubAtStart)

(* C3: once the cancel is written while the worker waits out a cooldown,   *)
(* the worker sleeps at most one tick more, starts no further video, the   *)
(* status is and stays cancelled, and the publication of the video that    *)
(* was just published is still recorded.                                   *)
C3_CancelInCooldown ==
    cdCancel > 0 =>
        /\ sleptAfter <= TickSeconds
        /\ pc \in CooldownPcs \cup {"for_loop", "ignored"}
        /\ i = cdCancel \/ (i = cdCancel + 1 /\ pc = "ignored")
        /\ task[curTask].status = "cancelled"
        /\ videos[cdCancel] \in pub

(* the cancel landed during a tick of sleep and the worker has stopped     *)
C3_Witness == cdCancel > 0 /\ pc = "ignored" /\ sleptAfter = TickSeconds

(* C4: at the end of a run the status is cancelled if a cancel was         *)
(* accepted before the end, else success if a video was published, else    *)
(* failed.                                                                 *)
C4_FinalStatus ==
    RunEnded =>
        task[curTask].status =
            IF curTask \in accepted THEN "cancelled"
            ELSE IF success_count > 0 THEN "success" ELSE "failed"

(* C5: a terminal status never changes to a different status.              *)
C5_TerminalOnce ==
    [][\A id \in DOMAIN task :
        task[id].status \in Terminal => task'[id].status = task[id].status]_vars

(* C6: an update of a row whose status is terminal changes no field of it. *)
(* In Spec no step calls log_task on an existing row, so every change of a *)
(* row is an update_task_progress or an update_task_status.                *)
C6_UpdateOfTerminalIsNoOp ==
    [][\A id \in DOMAIN task :
        task[id].status \in Terminal => task'[id] = task[id]]_vars

(* C7: a terminal row has next_action_at and cooldown_seconds null, and    *)
(* next_action_at is set only from the write that announces a cooldown of  *)
(* the running worker until the worker leaves the wait.                    *)
C7_CooldownFieldsCleared ==
    \A id \in DOMAIN task :
        /\ task[id].status \in Terminal =>
                (task[id].next_action_at = None /\ task[id].cooldown_seconds = None)
        /\ task[id].next_action_at # None =>
                (id = curTask /\ pc \in CooldownPcs \cup {"record"})

(* C8: when the worker has finished item i of n the progress column is     *)
(* floor(i * 100 / n).                                                     *)
C8_ProgressIsFloor ==
    (pc = "for_loop" /\ i >= 1) =>
        task[curTask].progress = (i * 100) \div total_videos

(* C9: progress is 100 only in a row whose status is success.              *)
C9_HundredOnlyAtSuccess ==
    \A id \in DOMAIN task : task[id].progress = 100 => task[id].status = "success"

(* GET /{task_id}/progress as far as the progress field goes *)
QueryProgress(t, task_id) ==
    LET r == get_task_progress(t, task_id)
    IN  IF r = None THEN None ELSE Some(OrZero(Some(r[1].progress)))

(* C10: the progress a status query returns for a run never decreases,     *)
(* whatever the worker and the canceller do between two queries.           *)
C10_ProgressNeverDecreases ==
    [][\A id \in DOMAIN task :
        /\ QueryProgress(task', id) # None
        /\ QueryProgress(task', id)[1] >= QueryProgress(task, id)[1]]_vars

(* a run of two videos has completed after an accepted cancel, at 100      *)
C10_Witness ==
    /\ pc = "done" /\ curTask \in accepted /\ Len(videos) = 2
    /\ QueryProgress(task, curTask) = Some(100)

C12_CancelOnlyThroughRecord ==
    stepAtCancel # << >> =>
        /\ task[curTask].status = "cancelled"
        /\ pc \in StepPcs => <<i, pc>> = stepAtCancel

(* the proxy of the row is usable: a host is configured, the proxy is      *)
(* active and its status is working                                        *)
Usable(row) ==
    NonEmpty(row.proxy_host) /\ row.proxy_active /\ row.proxy_status = "working"

(* C13: a publish goes through the proxy of the account exactly when       *)
(* proxy_active is true and proxy_status is working, and over the direct   *)
(* connection in every other case.                                         *)
C13_ProxyOnlyWhenWorking ==
    \A r \in routes : r.via = "proxy" <=> Usable(r.cfg)

(* C20: check_all_proxies tests no proxy of an account whose proxy_active  *)
(* is false and reports such an account as disabled, and no account        *)
(* without a configured proxy host is in its results.                      *)
C20_DisabledNotTested ==
    /\ \A t \in tested : t[2]
    /\ \A k \in 1..Len(results) :
        /\ results[k].username = snapshot[k].username
        /\ ~snapshot[k].proxy_active =>
                /\ results[k].status = "disabled"
                /\ \A t \in tested : t[1] # snapshot[k].username
        /\ NonEmpty(snapshot[k].proxy_host)

(* the order of the operations on one video *)
OpRank(kind) ==
    CASE kind = "resolve" -> 1 [] kind = "download" -> 2 [] kind = "publish" -> 3

Operations == {"resolve", "download", "publish"}

(* C14: every resolve, download and publish of a run is issued for the     *)
(* video the loop is at, after every operation of the videos before it and *)
(* after the earlier operations of the same video, and not before the      *)
(* cooldown of the video before it has been slept to its end.              *)
C14_InListOrder ==
    [][\A c \in calls' \ calls :
        c[2] \in Operations =>
            /\ c[1] = i
            /\ remaining = 0
            /\ \A d \in calls :
                d[2] \in Operations =>
                    \/ d[1] < c[1]
                    \/ d[1] = c[1] /\ OpRank(d[2]) < OpRank(c[2])]_vars

(* both videos of a list were published, the second after the cooldown of  *)
(* the first                                                               *)
C14_Witness ==
    /\ pc = "done" /\ success_count = 2
    /\ {<<1, "publish">>, <<2, "publish">>} \subseteq calls

(* the loop has taken up the video at index k *)
Processed(k) == k \in turnPublished \/ <<k, "resolve">> \in calls

(* C15: a run ends only by exhausting its list or by observing the         *)
(* cancellation: a completed run has taken up every video of the list,     *)
(* each skipped, published or counted as failed, whatever failed before    *)
(* it, and a run that stopped early finds its record cancelled.            *)
C15_FailureDoesNotEndRun ==
    /\ pc \in {"completion", "done"} =>
            /\ i = total_videos
            /\ \A k \in 1..total_videos : Processed(k)
            /\ Cardinality(turnPublished) + success_count + failed_count = total_videos
    /\ pc = "ignored" => task[curTask].status = "cancelled"

(* the resolve of the first video failed and the second video was          *)
(* published                                                               *)
C15_Witness ==
    /\ pc = "done" /\ total_videos = 2 /\ failed_count = 1
    /\ <<1, "download">> \notin calls /\ <<2, "publish">> \in calls /\ success_count = 1

(* the run over the three links has completed and no video of it failed *)
ScenarioDone == pc = "done" /\ failed_count = 0

(* what the run over links 1, 2, 3 with link 2 published does apart from   *)
(* the notifications                                                       *)
ScenarioOutcome ==
    /\ \A kind \in Collaborators : <<2, kind>> \notin calls
    /\ {<<1, "publish">>, <<3, "publish">>} \subseteq calls
    /\ task[curTask].status = "success"
    /\ task[curTask].total_items = 3
    /\ task[curTask].progress = 100

(* link 3 is taken up after link 1, when the loop has left link 1 behind *)
ScenarioOrder ==
    (\E kind \in Collaborators : <<3, kind>> \in calls) =>
        (<<1, "resolve">> \in calls /\ i = 3)

(* C16 as stated: the run skips link 2 without a call, publishes links 1   *)
(* and 3 in that order, ends success with total_items 3 and progress 100,  *)
(* and has sent exactly 2 notifications.                                   *)
C16_ScenarioTwoNotifications ==
    /\ ScenarioOrder
    /\ ScenarioDone => (ScenarioOutcome /\ Cardinality(notes) = 2)

(* C16 amended: the same, with exactly 3 notifications: one for each of    *)
(* the two published videos and the summary of the completed run.          *)
C16_ScenarioThreeNotifications ==
    /\ ScenarioOrder
    /\ ScenarioDone =>
            /\ ScenarioOutcome
            /\ notes = {<<1, "uploaded">>, <<3, "uploaded">>, <<3, "summary">>}

(* the run has completed with links 1 and 3 published *)
C16_Witness == ScenarioDone /\ pub = {1, 2, 3} /\ success_count = 2

(* the resolver returned no download URL for the k-th link of the run *)
NullAt(k) == (pc = "upd_nolink" /\ i = k) \/ <<k, "no link">> \in notes

(* C17: when the resolver returns null for a link, the video is counted as
   failed and the step creates no file; no download and no publish is ever
   attempted for it; the run goes on to the links after it; and a run that
   completes having published another link writes success as its final
   status, which nothing but a cancel request written later replaces *)
C17_NullResolveIsOneFailure ==
    /\ [][(pc = "get_link" /\ pc' = "upd_nolink") =>
            (failed_count' = failed_count + 1 /\ files' = files /\ pub' = pub)]_vars
    /\ [][(pc = "completion" /\ pc' = "done" /\ \E k \in 1..total_videos : NullAt(k)
            /\ \E j \in 1..total_videos : <<j, "uploaded">> \in notes) =>
            task'[curTask].status = "success"]_vars
    /\ [](\A k \in 1..total_videos : NullAt(k) =>
            /\ failed_count >= Cardinality({j \in 1..total_videos : NullAt(j)})
            /\ <<k, "download">> \notin calls
            /\ <<k, "publish">> \notin calls
            /\ <<k, "uploaded">> \notin notes
            /\ pc \in {"completion", "done"} =>
                    \A j \in (k + 1)..total_videos : Processed(j)
            /\ (pc = "done" /\ \E j \in 1..total_videos : <<j, "uploaded">> \in notes) =>
                    task[curTask].status \in {"success", "cancelled"})

C17_Witness ==
    /\ pc = "done" /\ total_videos = 2
    /\ NullAt(1) /\ <<1, "download">> \notin calls
    /\ <<2, "uploaded">> \in notes
    /\ failed_count = 1
    /\ task[curTask].status = "success"

(* the last two calls of the fetch had the same request and the platform
   listed the same links for each source account *)
SameFetchTwice ==
    /\ fprev # << >>
    /\ fprev.req = flast.req
    /\ fprev.listed = flast.listed

(* C18: a second fetch with the same theme, source accounts and limit, the
   platform listing the same links, returns no link and creates no row *)
C18_SecondFetchFindsNothing ==
    SameFetchTwice => (flast.result = << >> /\ flast.created = 0)

C18_Witness ==
    /\ SameFetchTwice
    /\ fprev.created > 0
    /\ Len(flast.req.source_usernames) = 2
    /\ flast.result = << >>
    /\ flast.created = 0

(* the links of the listings of a call, in the order they were listed *)
RECURSIVE Discovered(_)
Discovered(ls) ==
    IF ls = << >> THEN << >>
    ELSE (IF Head(ls) = None THEN << >> ELSE Head(ls)[1]) \o Discovered(Tail(ls))

(* C19: every link the fetch returns was not a known link of the theme
   before the call and is one after it, and the returned list holds each
   new link exactly once, in the order of discovery *)
C19_NewLinksOnceInOrder ==
    flast # << >> =>
        LET result == flast.result
            found == SelectSeq(Discovered(flast.listed), LAMBDA url : url \notin flast.before)
        IN  /\ \A k \in 1..Len(result) : result[k] \notin flast.before /\ result[k] \in flast.after
            /\ \A j, k \in 1..Len(result) : j # k => result[j] # result[k]
            /\ {result[k] : k \in 1..Len(result)} = {found[k] : k \in 1..Len(found)}
            /\ \A j, k \in 1..Len(result) : j < k =>
                    \E a, b \in 1..Len(found) : a < b /\ found[a] = result[j] /\ found[b] = result[k]

(* check_all_proxies hands the account at pidx to check_proxy_health *)
HealthChecked == ppc = "loop" /\ pidx' = pidx + 1 /\ snapshot[pidx].proxy_active

(* the requests of the test: the endpoints in the order of the list, none
   after the first that answered 200 *)
InOrderUntilFirstSuccess(reqs) ==
    /\ Len(reqs) \in 1..Len(TestUrls)
    /\ \A k \in 1..Len(reqs) : reqs[k][1] = TestUrls[k]
    /\ \A k \in 1..(Len(reqs) - 1) : reqs[k][2] # "200"

(* the check of account u tested the proxy and stored what it found *)
TestedAndStored(u) ==
    /\ InOrderUntilFirstSuccess(contacted')
    /\ health'.status = "working" <=> contacted'[Len(contacted')][2] = "200"
    /\ health'.status = "failed" => Len(contacted') = Len(TestUrls)
    /\ accounts'[u].proxy_status = health'.status
    /\ proxy_last_check'[u] = Some(now')

(* C21: a proxy check requests the echo endpoints in their fixed order and
   stops at the first that answers successfully, then stores working and the
   time of the check; when all fail it stores failed; the result it returns
   always has status working or failed *)
C21_CheckIsWorkingOrFailed ==
    [][HealthChecked =>
        /\ health'.username = snapshot[pidx].username
        /\ health'.status \in {"working", "failed"}
        /\ TestedAndStored(snapshot[pidx].username)]_vars

(* C21 as the code has it: the check of an account whose active proxy is gone
   by the time it is checked requests nothing, stores nothing and returns
   status no_proxy *)
C21_CheckIsWorkingFailedOrNoProxy ==
    [][HealthChecked =>
        LET u == snapshot[pidx].username
        IN  /\ health'.username = u
            /\ health'.status \in {"working", "failed", "no_proxy"}
            /\ health'.status = "no_proxy" <=> get_account_proxy_config(accounts, u) = None
            /\ IF health'.status = "no_proxy"
               THEN contacted' = << >> /\ accounts' = accounts
                    /\ proxy_last_check' = proxy_last_check
               ELSE TestedAndStored(u)]_vars

C21_Witness ==
    /\ health # << >> /\ health.status = "working"
    /\ Len(contacted) = 3 /\ contacted[1][2] = "raises" /\ contacted[2][2] = "status"
    /\ now = 1
    /\ accounts[health.username].proxy_status = "working"
    /\ proxy_last_check[health.username] = Some(1)

(* C22: log_task called with the id of an existing record leaves that record
   as it was (the call is refused as a duplicate) *)
C22_CreateKeepsExistingRecord ==
    [][(fpc = "accounts" /\ fpc' = "idle" /\ FetchTaskId(ftask) \in DOMAIN task) =>
            task'[FetchTaskId(ftask)] = task[FetchTaskId(ftask)]]_vars

(* C23: an upload request with an empty list of links is refused: no task
   with an empty list is in the queue, none is run by the worker and no
   record of an upload of zero items exists *)
C23_EmptyListRejected ==
    /\ \A k \in 1..Len(queue) : queue[k].videos # << >>
    /\ curTask # 0 => videos # << >>
    /\ \A id \in DOMAIN task : task[id].task_type = "upload" => task[id].total_items > 0

(* C24: when the cancel is written while the worker resolves the download
   source of a video, the download of that video is never started *)
C24_NoDownloadAfterCancelledResolve ==
    (stepAtCancel # << >> /\ stepAtCancel[2] = "get_link") =>
        <<stepAtCancel[1], "download">> \notin calls

(* C25: when the record is cancelled as the download of a video has finished,
   the worker's next step ends the run: it deletes the downloaded file and
   calls no collaborator, and an ended run does nothing more *)
C25_CancelAfterDownloadStopsRun ==
    /\ [][(pc = "check_upload" /\ pc' # pc /\ check_if_cancelled(task, curTask)) =>
            /\ pc' = "ignored"
            /\ video \notin files'
            /\ calls' = calls /\ pub' = pub /\ publishing' = publishing]_vars
    /\ [][pc = "ignored" =>
            (pc' = "ignored" /\ calls' = calls /\ files' = files /\ pub' = pub)]_vars
    /\ [](pc = "ignored" /\ stepAtCancel # << >> /\ stepAtCancel[2] = "download" =>
            \A k \in stepAtCancel[1]..total_videos : <<k, "publish">> \notin calls)

C25_Witness ==
    /\ pc = "ignored" /\ total_videos = 2
    /\ stepAtCancel = <<1, "download">>
    /\ <<1, "download">> \in calls
    /\ files = {}
    /\ \A k \in 1..2 : <<k, "publish">> \notin calls

(* the indices of the run whose publication was recorded *)
Recorded == {k \in 1..total_videos : <<k, "record">> \in calls}

(* C26: the publication history changes only by the record of the video
   whose publish has just returned success, and each publish that returned
   success has its record written by the time the worker stops, whatever the
   cancel requests *)
C26_RecordIffPublished ==
    /\ [][pub' # pub =>
            /\ pc = "record" /\ <<i, "publish">> \in calls
            /\ <<i, "record">> \in calls' \ calls
            /\ pub' = pub \cup {video}]_vars
    /\ [][(pc = "upload" /\ success_count' = success_count + 1) =>
            (pc' = "upd_success" /\ pub' = pub)]_vars
    /\ [](/\ \A k \in Recorded : <<k, "publish">> \in calls /\ videos[k] \in pub
          /\ success_count = Cardinality(Recorded) +
                                (IF pc \in {"upd_success", "record"} THEN 1 ELSE 0)
          /\ pc \in {"upd_success", "record"} => <<i, "publish">> \in calls /\ i \notin Recorded)

C26_Witness ==
    /\ pc = "ignored"
    /\ stepAtCancel = <<1, "upload">>
    /\ success_count = 1
    /\ Recorded = {1}
    /\ videos[1] \in pub /\ videos[1] \notin pubAtStart

(* C27: whenever the worker is between two videos or has stopped, no file
   downloaded by the run is left in ./videos *)
C27_NoFileLeft ==
    pc \in {"for_loop", "completion", "done", "ignored"} => files = {}

(* C28: after a successful publish with another video queued behind it the
   worker enters a cooldown of 300 to 1500 seconds and goes to the next video
   only when none of it remains; after a failed resolve, download or publish
   it goes to the next video at once; a cooldown is never entered otherwise *)
C28_CooldownOnlyAfterSuccess ==
    /\ [][(pc = "record" /\ pc' # pc) =>
            IF i < total_videos
            THEN /\ cooldown \in CooldownMin..CooldownMax
                 /\ pc' = "cd_check" /\ remaining' = cooldown
            ELSE cooldown = 0 /\ pc' = "for_loop"]_vars
    /\ [][(pc \in CooldownPcs /\ pc' = "for_loop") => remaining' = 0]_vars
    /\ [][(pc \in {"upd_nolink", "upd_dlfailed", "upd_upfailed"} /\ pc' # pc) =>
            (pc' = "for_loop" /\ remaining' = 0)]_vars
    /\ [](/\ pc \in CooldownPcs => (i \in Recorded /\ i < total_videos
                                    /\ remaining \in 0..cooldown)
          /\ pc \in {"for_loop", "get_link", "download", "upload"} => remaining = 0)

C28_Witness ==
    /\ pc = "upload" /\ i = 2
    /\ Recorded = {1}
    /\ cooldown = CooldownMin /\ remaining = 0
    /\ task[curTask].status = "running"

(* C29: in a cooldown every sleep is a tick of 1 to 10 seconds taken off what
   remains, each tick is entered from a poll that found no cancellation, the
   write after a tick that leaves time stores what remains, less than the
   record held, the loop is left for the next video only when nothing
   remains, and every cooldown comes to an end *)
C29_CooldownTicks ==
    /\ [][(pc = "cd_sleep" /\ pc' # pc) =>
            /\ remaining - remaining' \in 1..TickSeconds
            /\ remaining' >= 0
            /\ pc' = (IF remaining' > 0 THEN "cd_update" ELSE "for_loop")]_vars
    /\ [][(pc # "cd_sleep" /\ pc' = "cd_sleep") =>
            (pc = "cd_check" /\ ~check_if_cancelled(task, curTask))]_vars
    /\ [][(pc = "cd_update" /\ pc' # pc) =>
            /\ pc' = "cd_check"
            /\ remaining \in 1..(cooldown - 1)
            /\ task'[curTask].cooldown_seconds = Some(remaining)
            /\ task[curTask].cooldown_seconds # None =>
                    remaining < task[curTask].cooldown_seconds[1]]_vars
    /\ [][(pc \in CooldownPcs /\ pc' \notin CooldownPcs) =>
            \/ pc' = "for_loop" /\ remaining' = 0
            \/ pc' = "ignored" /\ pc = "cd_check" /\ check_if_cancelled(task, curTask)]_vars
    /\ (pc \in CooldownPcs ~> pc \notin CooldownPcs)

C29_Witness ==
    /\ pc = "for_loop" /\ i = 1 /\ total_videos = 2
    /\ Recorded = {1}
    /\ cooldown = CooldownMin + 1 /\ remaining = 0
    /\ task[curTask].status = "running"
    /\ task[curTask].cooldown_seconds = Some(1)

(* the call failed on a login or on a session error *)
LoginOrSessionFailure == upc = "returned" /\ attempt.cause \in {"login", "session"}

(* C30: a call of the upload logs in afresh at most once; when it logs in no
   session file is there, the invalid one having been removed; after a call
   that failed on a login or session error no session file is left, and the
   next call starts with a fresh login *)
C30_OneLoginCleanSession ==
    /\ [](attempt.logins <= 1)
    /\ [][attempt'.logins > attempt.logins => (upc = "login" /\ ~session)]_vars
    /\ [](LoginOrSessionFailure => ~session)
    /\ [][(LoginOrSessionFailure /\ upc' # upc) => upc' = "login"]_vars

C30_Witness ==
    /\ LoginOrSessionFailure
    /\ attempt.had_session /\ attempt.logins = 1 /\ attempt.cause = "login"
    /\ ~session
    /\ uattempts = 2

(* C31: a run that was queued or has started comes to its end, and at the
   end of a run, and ever after, its record is success, failed or cancelled
   and the worker does nothing more for it, whatever the list and whenever
   the cancel requests come *)
C31_RunLeavesRunning ==
    /\ ((queue # << >> \/ pc \notin EndPcs) ~> (pc \in {"done", "ignored"}))
    /\ [](pc \in {"done", "ignored"} => task[curTask].status \in Terminal)
    /\ [][(pc = "done" \/ pc = "ignored") => (pc' = pc /\ calls' = calls /\ pub' = pub)]_vars

C31_Witness ==
    /\ pc = "done" /\ total_videos = 2
    /\ success_count = 1 /\ failed_count = 1
    /\ Recorded = {1}
    /\ <<2, "upload failed">> \in notes
    /\ task[curTask].status = "success"
    /\ accepted = {}

(* C32: whatever the order of the proxy settings, removals, tests and health
   checks, an account without a proxy host has the proxy inactive, the status
   unchecked, and no port, no credentials and no time of a last check *)
C32_NoHostNoProxyFields ==
    \A u \in Usernames :
        accounts[u].proxy_host = None =>
            /\ accounts[u] = NoProxy
            /\ proxy_last_check[u] = None

(* the proxy of A, set with credentials, was found working by the health
   check that is still running, and has been removed since *)
C32_Witness ==
    /\ ppc = "loop"
    /\ health # << >> /\ health.username = "A" /\ health.status = "working"
    /\ accounts["A"] = NoProxy /\ proxy_last_check["A"] = None
    /\ snapshot[1].username = "A" /\ snapshot[1].proxy_active
    /\ accounts["B"].proxy_username # None /\ accounts["B"].proxy_status = "failed"

(* C33: a check that fails stores the status failed and leaves proxy_active
   and the other proxy columns as they were, and the proxy of an account is
   deactivated with its failed status left in place, which only the automatic
   deactivation does, only after FailureThreshold failed checks in a row *)
C33_DisableOnlyAfterThreshold ==
    [][\A u \in Usernames :
        /\ (accounts'[u].proxy_status = "failed" /\ failed_checks'[u] # failed_checks[u]) =>
                accounts'[u] = [accounts[u] EXCEPT !.proxy_status = "failed"]
        /\ (/\ accounts[u].proxy_active /\ ~accounts'[u].proxy_active
            /\ accounts'[u].proxy_status = "failed") =>
                failed_checks[u] >= FailureThreshold]_vars

(* C34: an account whose proxy status is working stores the host, the port
   and the credentials that the last test went through, and that test came
   after the settings were last written; writing the settings sets the status
   to unchecked, also while the health check of all proxies is running *)
C34_WorkingIsTheStoredProxy ==
    /\ [](\A u \in Usernames :
            accounts[u].proxy_status = "working" =>
                /\ NonEmpty(accounts[u].proxy_host)
                /\ checked[u] = Some([host |-> accounts[u].proxy_host[1],
                                      port |-> accounts[u].proxy_port,
                                      username |-> accounts[u].proxy_username,
                                      password |-> accounts[u].proxy_password]))
    /\ [][\A u \in Usernames :
            (accounts'[u] # accounts[u] /\ accounts'[u].proxy_status = accounts[u].proxy_status) =>
                accounts'[u].proxy_status = "unchecked"]_vars

(* the health check of all proxies read B with an empty host; the host of B
   was set while the check slept after A, and B was then tested through it *)
C34_Witness ==
    /\ ppc = "loop" /\ Len(snapshot) = 2
    /\ snapshot[2].username = "B" /\ snapshot[2].proxy_host = Some("")
    /\ accounts["B"].proxy_host = Some("h") /\ accounts["B"].proxy_status = "working"
    /\ health # << >> /\ health.username = "B" /\ health.status = "working"
    /\ checked["B"] # None /\ checked["B"][1].host = "h"

(* every link of the list of the run was published by the account before the run *)
AllPublished == \A k \in 1..total_videos : videos[k] \in pubAtStart

(* C35: a run over a list whose links are all published already calls no
   resolver, downloader or publisher, writes no publication and counts no
   success and no failure, and its completion writes the status failed *)
C35_AllPublishedRunFails ==
    /\ []((pc \notin {"idle"} /\ AllPublished) =>
            /\ calls = {} /\ files = {} /\ pub = pubAtStart
            /\ success_count = 0 /\ failed_count = 0)
    /\ [][(pc = "completion" /\ pc' = "done" /\ AllPublished) =>
            /\ i = total_videos
            /\ task'[curTask].status = "failed"]_vars

C35_Witness ==
    /\ pc = "done" /\ total_videos = 2 /\ AllPublished
    /\ turnPublished = {1, 2}
    /\ videos[1] # videos[2]
    /\ calls = {}
    /\ task[curTask].status = "failed" /\ task[curTask].progress = 100
    /\ accepted = {}

(* the indices of the run that were counted as failed, by what was told of them *)
FailedIndices ==
    {k \in 1..total_videos :
        \E kind \in {"no link", "download failed", "upload failed", "error"} : <<k, kind>> \in notes}

(* C36: when the loop of a run has come to the end of the list, every video
   of the list was either published and recorded, or counted as failed, or
   skipped as published already, and never two of these; the counters are the
   sizes of the first two sets, and success_count is the number of
   publications the run has written *)
C36_EveryVideoCountedOnce ==
    pc \in {"completion", "done"} =>
        /\ Recorded \cup FailedIndices \cup turnPublished = 1..total_videos
        /\ Recorded \cap FailedIndices = {}
        /\ Recorded \cap turnPublished = {}
        /\ FailedIndices \cap turnPublished = {}
        /\ success_count = Cardinality(Recorded)
        /\ failed_count = Cardinality(FailedIndices)
        /\ success_count + failed_count + Cardinality(turnPublished) = total_videos
        /\ success_count = Cardinality(pub \ pubAtStart)

(* the list names one link twice: published at the first turn, skipped at the second *)
C36_Witness ==
    /\ pc = "done" /\ total_videos = 2
    /\ videos[1] = videos[2]
    /\ Recorded = {1} /\ turnPublished = {2} /\ FailedIndices = {}
    /\ success_count = 1 /\ failed_count = 0
    /\ pub \ pubAtStart = {videos[1]}

(* C37: no step removes a row of the task log, and a step that finds a row
   leaves its id, task_type, account_username and total_items as they are:
   those of the row of a run are the ones written when the run started, after
   any number of progress writes, the cancel write and the completion write *)
C37_IdentityColumnsKept ==
    /\ [][\A id \in DOMAIN task :
            /\ id \in DOMAIN task'
            /\ task'[id].id = task[id].id
            /\ task'[id].task_type = task[id].task_type
            /\ task'[id].account_username = task[id].account_username
            /\ task'[id].total_items = task[id].total_items]_vars
    /\ [](\A id \in DOMAIN task :
            /\ task[id].id = id /\ task[id].task_type = "upload"
            /\ task[id].account_username = Account
            /\ id = curTask => task[id].total_items = total_videos)

(* the cancel was written during the last publish and the completion wrote
   success over it *)
C37_Witness ==
    /\ pc = "done" /\ total_videos = 2
    /\ curTask \in accepted
    /\ task[curTask].status = "success" /\ task[curTask].progress = 100
    /\ task[curTask].id = curTask /\ task[curTask].total_items = 2
    /\ task[curTask].task_type = "upload" /\ task[curTask].account_username = Account

(* C38: the videos_count of the response of a fetch, which is also the count
   of its success message, is the number of rows the fetch added to the
   videos table *)
C38_CountIsRowsCreated ==
    flast # << >> => flast.videos_count = flast.created

(* C39: when a run of process_video_with_progress that no cancel request
   touched has completed, process_video, started on the same publication
   history with the same list, the same captions file and the same answers
   of the collaborators, hands the same links to the uploader in the same
   order and leaves the same publication history *)
C39_LegacyPublishesTheSame ==
    pc = "done" =>
        /\ process_video.uploads = UploadsOfRun
        /\ process_video.pub = pub
====
